---- MODULE Spec2Model ----
(***************************************************************************)
(* State-machine model of the content-enrichment engine (DataEnricher,     *)
(* data_enricher.py) and of the analytics metric store with its alert      *)
(* evaluator (AnalyticsProcessor, analytics_processor.py).                 *)
(*                                                                         *)
(* Abstractions.  Text is abstracted to a tag: NoneV (absent), NonStr (a   *)
(* truthy value that is not a str, on which str methods and len() raise)   *)
(* or a string tag naming the code that produced the text.  Whatever the   *)
(* code decides by looking at the characters of a text (a length test, a   *)
(* keyword match, whether a rewrite yields a different string) is an input *)
(* of the pass, drawn from Choices.  Scores are integers in units of 1/7200 *)
(* point.  dict and list objects live on heaps and are held by reference,  *)
(* so that aliasing between a record and its copy is expressible.  Every   *)
(* `await` of enrich_product is a scheduling point of the event loop.      *)
(***************************************************************************)
EXTENDS Integers, Sequences, FiniteSets, TLC

VARIABLES
    config,              \* DataEnricher.config.enabled_types
    enrichment_history,  \* DataEnricher.enrichment_history
    dictHeap,            \* the dict objects (attributes mappings), by reference
    listHeap,            \* the list objects (images sequences), by reference
    tasks,               \* the activations of enrich_product of the current call
    call,                \* the caller's current call: idle, single, batch
    semaphore,           \* value of the asyncio.Semaphore of the running batch
    returned,            \* what the last finished call handed to its caller
    calls,               \* number of calls made so far
    completed,           \* the activations that ran to the end, in completion order
    metrics_store,       \* AnalyticsProcessor.metrics_store
    alert_history,       \* AnalyticsProcessor.alert_history
    alert_thresholds,    \* AnalyticsProcessor.config.alert_thresholds
    retention_days,      \* AnalyticsProcessor.config.retention_days
    tracked,             \* the points handed to track_metric so far, in order
    analysis,            \* what the last analytics call handed to its caller
    now,                 \* the wall clock (days; hours under SpecDashboard)
    store_keys,          \* the keys of metrics_store in insertion order
    reports_cache,       \* AnalyticsProcessor.reports_cache
    reports,             \* the reports generated so far, in order
    seconds              \* the wall clock's whole seconds, int(now.timestamp())

enrichVars == <<config, enrichment_history, dictHeap, listHeap, tasks, call,
                semaphore, returned, calls, completed>>
reportVars == <<reports_cache, reports, seconds>>
analyticsVars == <<metrics_store, alert_history, alert_thresholds,
                   retention_days, tracked, analysis, now, store_keys,
                   reports_cache, reports, seconds>>
vars == <<config, enrichment_history, dictHeap, listHeap, tasks, call,
          semaphore, returned, calls, completed, metrics_store, alert_history,
          alert_thresholds, retention_days, tracked, analysis, now, store_keys,
          reports_cache, reports, seconds>>

----------------------------------------------------------------------------
(* Bounds of the model *)

MaxTypes == 2       \* longest enabled_types list
MaxCalls == 1       \* calls of enrich_product per behaviour of Spec
MaxBatchCalls == 2  \* calls per behaviour of SpecBatch
MaxBatch == 2       \* longest batch of SpecBatch
MaxWide == 6        \* longest batch of SpecSem
MaxPoints == 3      \* points tracked per behaviour of SpecAnalytics
MaxThresholds == 2  \* longest alert_thresholds mapping
MaxReports == 3     \* reports generated per behaviour
MaxTicks == 2       \* seconds the wall clock advances per behaviour

----------------------------------------------------------------------------
(* Values *)

NoneV == "None"
NonStr == "NonStr"
(* an item of a batch that is no ProductData (None): it has no `id` *)
NotAProduct == [none |-> TRUE]
IsProduct(x) == "id" \in DOMAIN x
(* an `attributes` value that is truthy and has no copy() (a str, a tuple) *)
NotADict == {<<"not a dict", "no copy()">>}

Truthy(v) == v \notin {NoneV, ""}

SEO_OPTIMIZATION == "seo_optimization"
CONTENT_GENERATION == "content_generation"
AMAZON_OPTIMIZATION == "amazon_optimization"
MULTI_CHANNEL == "multi_channel"
QUALITY_SCORING == "quality_scoring"
TRANSLATION == "translation"
CATEGORIZATION == "categorization"

EnrichmentType ==
    {SEO_OPTIMIZATION, CONTENT_GENERATION, AMAZON_OPTIMIZATION, MULTI_CHANNEL,
     QUALITY_SCORING, TRANSLATION, CATEGORIZATION}

SeqsUpTo(S, n) == UNION {[1..k -> S] : k \in 0..n}

(* A dict is a set of <<key, value>> pairs with unique keys. *)
EmptyDict == {}
DictHas(d, k) == \E p \in d : p[1] = k
DictGet(d, k) == (CHOOSE p \in d : p[1] = k)[2]
DictPut(d, k, v) == {p \in d : p[1] # k} \cup {<<k, v>>}
DictKeys(d) == {p[1] : p \in d}
DictLen(d) == Cardinality(d)
RECURSIVE DictUpdate(_, _)
DictUpdate(d, e) ==
    IF e = {} THEN d
    ELSE LET p == CHOOSE x \in e : TRUE
         IN DictUpdate(DictPut(d, p[1], p[2]), e \ {p})

Min(a, b) == IF a <= b THEN a ELSE b

(* What a pass reads off the characters of the texts it is given. *)
Choices ==
    [short : BOOLEAN,      \* the pass's length tests hold
     differs : BOOLEAN,    \* a rewritten text differs from the text it replaces
     q : {250, 900},       \* a content-derived score, in tenths
     suggest : {NoneV, "Electronics"}]  \* _suggest_category's answer

----------------------------------------------------------------------------
(* ProductData and its copy: data_enricher.py 105-116 *)

Attrs(dh, product) == dh[product.attributes]
Images(lh, product) == lh[product.images]

(* The deep value of a record: its fields with the objects it refers to. *)
Deep(product, dh, lh) ==
    [product EXCEPT !.attributes = dh[product.attributes],
                    !.images = lh[product.images]]

(* faulty variant: no copy is made, the original's objects are shared *)
CopyProductAliased(product, dh, lh) ==
    [product |-> product, dictHeap |-> dh, listHeap |-> lh]

CopyProduct(product, dh, lh) ==
    LET a == IF Attrs(dh, product) # EmptyDict THEN Attrs(dh, product) ELSE EmptyDict
        i == IF Images(lh, product) # <<>> THEN Images(lh, product) ELSE <<>>
        dh2 == Append(dh, a)
        lh2 == Append(lh, i)
    IN [product |-> [product EXCEPT !.attributes = Len(dh2), !.images = Len(lh2)],
        dictHeap |-> dh2, listHeap |-> lh2]

----------------------------------------------------------------------------
(* The state a pass works on: the record it mutates in place, the heap, and *)
(* its local metrics and suggestions, lost when it raises.                   *)

Begin(product, dh) ==
    [product |-> product, dictHeap |-> dh, metrics |-> EmptyDict,
     suggestions |-> <<>>, raised |-> FALSE]

Raise(st) == [st EXCEPT !.raised = TRUE]
Metric(st, k, v) == [st EXCEPT !.metrics = DictPut(@, k, v)]
(* a suggestion is a pair: its kind and its text (or the failed pass) *)
Suggest(st, s) == [st EXCEPT !.suggestions = Append(@, <<"note", s>>)]
SetField(st, f, v) == [st EXCEPT !.product[f] = v]

(* `if not product.attributes: product.attributes = {}` : a new dict object *)
EnsureAttributes(st) ==
    IF st.dictHeap[st.product.attributes] # EmptyDict THEN st
    ELSE [st EXCEPT !.dictHeap = Append(@, EmptyDict),
                    !.product.attributes = Len(st.dictHeap) + 1]

(* product.attributes[k] = v *)
SetAttr(st, k, v) ==
    [st EXCEPT !.dictHeap[st.product.attributes] = DictPut(@, k, v)]

StAttrs(st) == st.dictHeap[st.product.attributes]

----------------------------------------------------------------------------
(* Scores.  One point is 7200 units, so that the means the code takes (of   *)
(* up to four and then of up to six values) are exact integers.             *)

Tenth == 8 * 90
Pts(tenths) == tenths * Tenth
NoPrice == 0 - 1
PriceTruthy(price) == price > 0

(* faulty variant: non-empty images and attributes earn 7.5 points each,  *)
(* however many there are                                                 *)
_calculate_content_completeness_Flat(product, dh, lh) ==
    LET req(b) == IF b THEN Pts(140) ELSE 0
        a == dh[product.attributes]
        i == lh[product.images]
    IN Min(Pts(1000),
           req(Truthy(product.id)) + req(Truthy(product.title))
           + req(Truthy(product.description)) + req(PriceTruthy(product.price))
           + req(Truthy(product.category))
           + (IF Truthy(product.brand) THEN Pts(75) ELSE 0)
           + (IF Truthy(product.sku) THEN Pts(75) ELSE 0)
           + (IF i # <<>> THEN Pts(75) ELSE 0)
           + (IF a # EmptyDict THEN Pts(75) ELSE 0))

(* _calculate_content_completeness: data_enricher.py 874-899 *)
_calculate_content_completeness(product, dh, lh) ==
    LET req(b) == IF b THEN Pts(140) ELSE 0
        a == dh[product.attributes]
        i == lh[product.images]
    IN Min(Pts(1000),
           req(Truthy(product.id)) + req(Truthy(product.title))
           + req(Truthy(product.description)) + req(PriceTruthy(product.price))
           + req(Truthy(product.category))
           + (IF Truthy(product.brand) THEN Pts(75) ELSE 0)
           + (IF Truthy(product.sku) THEN Pts(75) ELSE 0)
           + (IF i # <<>> THEN Min(Pts(75), Len(i) * Pts(25)) ELSE 0)
           + (IF a # EmptyDict THEN Min(Pts(75), DictLen(a) * Pts(15)) ELSE 0))

(* _calculate_content_richness: data_enricher.py 852-872; the word counts  *)
(* of title and description are content (ch)                                *)
_calculate_content_richness(product, dh, lh, ch) ==
    LET a == dh[product.attributes]
        i == lh[product.images]
    IN Min(Pts(1000),
           (IF Truthy(product.title) THEN (IF ch.short THEN Pts(20) ELSE Pts(200)) ELSE 0)
           + (IF Truthy(product.description)
                 THEN (IF ch.short THEN Pts(10) ELSE Pts(400)) ELSE 0)
           + (IF a # EmptyDict THEN Min(Pts(300), DictLen(a) * Pts(30)) ELSE 0)
           + (IF i # <<>> THEN Min(Pts(100), Len(i) * Pts(20)) ELSE 0))

----------------------------------------------------------------------------
(* SEO optimization: data_enricher.py 235-297 *)

(* lines 242-258; _optimize_title_for_seo raises on title.strip() of a      *)
(* non-str and, for a title shorter than 50, in re.split on a non-str       *)
(* category (_extract_category_keywords)                                    *)
(* faulty variant: the brand moved in front of the title is taken off the   *)
(* record                                                                   *)
Seo_Title_TakingBrand(st, ch) ==
    LET p == st.product IN
    IF ~Truthy(p.title) THEN st
    ELSE IF p.title = NonStr THEN Raise(st)
    ELSE IF Truthy(p.category) /\ ch.short /\ p.category = NonStr THEN Raise(st)
    ELSE LET t == IF ch.differs THEN "seo_title" ELSE p.title
             s1 == SetField(SetField(st, "title", t), "brand", NoneV)
             s2 == Metric(Metric(s1, "title_length", ch.q), "title_keyword_density", 0)
         IN IF t # p.title THEN Suggest(s2, "Optimized title for SEO") ELSE s2
Seo_Title(st, ch) ==
    LET p == st.product IN
    IF ~Truthy(p.title) THEN st
    ELSE IF p.title = NonStr THEN Raise(st)
    ELSE IF Truthy(p.category) /\ ch.short /\ p.category = NonStr THEN Raise(st)
    ELSE LET t == IF ch.differs THEN "seo_title" ELSE p.title
             s1 == SetField(st, "title", t)
             s2 == Metric(Metric(s1, "title_length", ch.q), "title_keyword_density", 0)
         IN IF t # p.title THEN Suggest(s2, "Optimized title for SEO") ELSE s2

(* lines 260-279; _optimize_description_for_seo raises in re.split on a     *)
(* non-str category, and a non-str description raises in enhanced.lower()   *)
(* or in len(product.description)                                           *)
Seo_Description(st, ch) ==
    LET p == st.product IN
    IF st.raised \/ ~Truthy(p.description) THEN st
    ELSE IF p.category = NonStr \/ p.description = NonStr THEN Raise(st)
    ELSE LET d == IF ch.differs THEN "seo_description" ELSE p.description
             s1 == SetField(st, "description", d)
             s2 == Metric(Metric(Metric(s1, "description_length", ch.q),
                                 "description_keyword_density", 0),
                          "readability_score", Pts(ch.q))
         IN IF d # p.description
               THEN Suggest(s2, "Enhanced description with SEO keywords") ELSE s2

(* lines 281-297; _generate_meta_description (535-567) is None iff the      *)
(* record has neither title nor description                                 *)
Seo_Attributes(st, ch) ==
    IF st.raised THEN st
    ELSE LET s0 == EnsureAttributes(st)
             p == s0.product
             s1 == IF ~DictHas(StAttrs(s0), "meta_description")
                      /\ (Truthy(p.title) \/ Truthy(p.description))
                   THEN Suggest(Metric(SetAttr(s0, "meta_description", "meta"),
                                       "meta_description_length", ch.q),
                                "Generated SEO meta description")
                   ELSE s0
         IN SetAttr(SetAttr(s1, "seo_optimized", "true"), "seo_timestamp", "ts")

_apply_seo_optimization(product, dh, lh, ch) ==
    Seo_Attributes(Seo_Description(Seo_Title(Begin(product, dh), ch), ch), ch)

----------------------------------------------------------------------------
(* Content generation: data_enricher.py 299-344 *)

KeyAttrs == {"color", "size", "model", "type", "material"}
BulletPriorityAttrs ==
    {"material", "color", "size", "weight", "dimensions", "capacity", "power",
     "warranty", "compatibility"}

(* lines 306-314 with _generate_enhanced_title (569-594): len() of a        *)
(* non-str title raises; a non-str category appended to the components      *)
(* raises in ' '.join                                                       *)
Gen_Title(st, ch) ==
    LET p == st.product
        a == StAttrs(st)
        baseEmpty == ~Truthy(p.brand) /\ ~Truthy(p.title) /\ ~Truthy(p.sku)
        attrAdded == DictKeys(a) \cap KeyAttrs # {} /\ (baseEmpty \/ ch.short)
        catAdded == Truthy(p.category) /\ ((baseEmpty /\ ~attrAdded) \/ ch.short)
        onlyTitle == Truthy(p.title) /\ ~Truthy(p.brand) /\ ~attrAdded /\ ~catAdded
    IN IF p.title = NonStr THEN Raise(st)
       ELSE IF Truthy(p.title) /\ ~ch.short THEN st
       ELSE IF catAdded /\ p.category = NonStr THEN Raise(st)
       ELSE IF baseEmpty /\ ~attrAdded /\ ~catAdded THEN st
       ELSE Suggest(SetField(st, "title", IF onlyTitle THEN p.title ELSE "gen_title"),
                    "Generated enhanced title")

(* lines 316-321 with _generate_enhanced_description (596-642): len() of a  *)
(* non-str description raises, and so does category.lower() of a non-str    *)
Gen_Description(st, ch) ==
    LET p == st.product IN
    IF st.raised THEN st
    ELSE IF p.description = NonStr THEN Raise(st)
    ELSE IF Truthy(p.description) /\ ~ch.short THEN st
    ELSE IF ~Truthy(p.title) /\ ~Truthy(p.brand) THEN st
    ELSE IF p.category = NonStr THEN Raise(st)
    ELSE Suggest(SetField(st, "description", "gen_description"),
                 "Generated comprehensive product description")

(* lines 323-332 with _generate_bullet_points (644-675) *)
Gen_Bullets(st, ch) ==
    LET a == StAttrs(st)
        prio == DictKeys(a) \cap BulletPriorityAttrs
        others == DictKeys(a) \ BulletPriorityAttrs
        n == Min(5, Cardinality(prio) + (IF ch.short THEN Cardinality(others) ELSE 0))
    IN IF st.raised \/ a = EmptyDict \/ n = 0 THEN st
       ELSE Suggest(Metric(SetAttr(EnsureAttributes(st), "key_features", "bullets"),
                           "feature_count", n),
                    "Generated key feature bullet points")

(* lines 334-338 with _generate_usage_scenarios (677-709): category.lower() *)
Gen_Usage(st, ch) ==
    LET p == st.product IN
    IF st.raised \/ ~Truthy(p.category) THEN st
    ELSE IF p.category = NonStr THEN Raise(st)
    ELSE Suggest(SetAttr(st, "usage_scenarios", "scenarios"),
                 "Generated product usage scenarios")

(* lines 340-344 *)
Gen_Metrics(st, lh, ch) ==
    IF st.raised THEN st
    ELSE Metric(Metric(st, "content_richness",
                       _calculate_content_richness(st.product, st.dictHeap, lh, ch)),
                "content_completeness",
                _calculate_content_completeness(st.product, st.dictHeap, lh))

_apply_content_generation(product, dh, lh, ch) ==
    Gen_Metrics(Gen_Usage(Gen_Bullets(Gen_Description(
        Gen_Title(Begin(product, dh), ch), ch), ch), ch), lh, ch)

----------------------------------------------------------------------------
(* Amazon optimization: data_enricher.py 346-387 *)

AmazonPriorityAttrs == {"material", "dimensions", "weight", "warranty", "compatibility"}
BulletTag(n) == <<"bullets1", "bullets2", "bullets3", "bullets4", "bullets5">>[n]
BulletCount(v) ==
    IF v \in {BulletTag(n) : n \in 1..5} THEN CHOOSE n \in 1..5 : BulletTag(n) = v ELSE 1

(* lines 353-361 with _optimize_title_for_amazon (711-734): a non-str title *)
(* raises in title_clean.lower() or in ' '.join(components)                 *)
Amz_Title(st, ch) ==
    LET p == st.product IN
    IF ~Truthy(p.title) THEN st
    ELSE IF p.title = NonStr THEN Raise(st)
    ELSE IF ~ch.differs THEN st
    ELSE Suggest(Metric(SetAttr(EnsureAttributes(st), "amazon_title", "amazon_title"),
                        "amazon_title_length", ch.q),
                 "Created Amazon-optimized title")

(* lines 363-370 with _generate_amazon_bullet_points (736-771):             *)
(* description.split of a non-str raises, and the backfill raises in        *)
(* category.lower() of a non-str                                            *)
Amz_Bullets(st, ch) ==
    LET p == st.product
        a == StAttrs(st)
        fromText == IF ~Truthy(p.description) THEN 0 ELSE IF ch.short THEN 1 ELSE 3
        fromAttrs == Min(5 - fromText, Cardinality(DictKeys(a) \cap AmazonPriorityAttrs))
        n0 == fromText + fromAttrs
        backfill == n0 < 5 /\ n0 < 3
        n1 == n0 + (IF backfill /\ Truthy(p.category) THEN 1 ELSE 0)
                 + (IF backfill /\ Truthy(p.brand) THEN 1 ELSE 0)
        n == Min(5, n1)
    IN IF st.raised THEN st
       ELSE IF p.description = NonStr THEN Raise(st)
       ELSE IF backfill /\ p.category = NonStr THEN Raise(st)
       ELSE IF n = 0 THEN st
       ELSE Suggest(Metric(SetAttr(EnsureAttributes(st), "amazon_bullet_points",
                                   BulletTag(n)),
                           "amazon_bullet_count", n),
                    "Generated Amazon-style bullet points")

(* lines 372-376 with _generate_amazon_search_terms (773-799): re.split of  *)
(* a non-str category raises; the attribute is written without the guard    *)
(* `if not product.attributes`                                              *)
Amz_Terms(st, ch) ==
    LET p == st.product
        some == Truthy(p.title) \/ Truthy(p.category) \/ Truthy(p.brand)
                \/ StAttrs(st) # EmptyDict
    IN IF st.raised THEN st
       ELSE IF p.category = NonStr THEN Raise(st)
       ELSE IF ~some THEN st
       ELSE Suggest(SetAttr(st, "amazon_search_terms",
                            IF ch.short THEN "terms_short" ELSE "terms_long"),
                    "Generated Amazon backend search terms")

(* _calculate_amazon_a9_score: data_enricher.py 1331-1389 *)
_calculate_amazon_a9_score(product, dh, lh, ch) ==
    LET a == dh[product.attributes]
        i == lh[product.images]
        bullets == IF DictHas(a, "amazon_bullet_points")
                   THEN BulletCount(DictGet(a, "amazon_bullet_points")) ELSE 0
    IN Min(Pts(1000),
           (IF Truthy(product.title) THEN (IF ch.short THEN Pts(100) ELSE Pts(250)) ELSE 0)
           + (IF a # EmptyDict /\ DictHas(a, "amazon_bullet_points")
                 THEN (IF bullets = 5 THEN Pts(200)
                       ELSE IF bullets >= 3 THEN Pts(150) ELSE Pts(50))
                 ELSE 0)
           + (IF a # EmptyDict /\ DictHas(a, "amazon_search_terms")
                 THEN (IF DictGet(a, "amazon_search_terms") = "terms_long"
                       THEN Pts(150) ELSE Pts(50))
                 ELSE 0)
           + (IF i # <<>>
                 THEN (IF Len(i) >= 7 THEN Pts(150) ELSE IF Len(i) >= 5 THEN Pts(120)
                       ELSE IF Len(i) >= 3 THEN Pts(80) ELSE Pts(30))
                 ELSE 0)
           + (IF PriceTruthy(product.price) THEN Pts(100) ELSE 0)
           + (IF Truthy(product.category) THEN Pts(100) ELSE 0)
           + (IF Truthy(product.brand) THEN Pts(50) ELSE 0))

(* lines 378-387 *)
Amz_Score(st, lh, ch) ==
    IF st.raised THEN st
    ELSE LET a9 == _calculate_amazon_a9_score(st.product, st.dictHeap, lh, ch)
             s1 == Metric(st, "amazon_a9_score", a9)
         IN IF a9 < Pts(700) THEN Suggest(s1, "Amazon A9 optimization score is low")
            ELSE s1

_apply_amazon_optimization(product, dh, lh, ch) ==
    Amz_Score(Amz_Terms(Amz_Bullets(Amz_Title(Begin(product, dh), ch), ch), ch), lh, ch)

----------------------------------------------------------------------------
(* Quality scoring: data_enricher.py 389-435.  It writes no field of the    *)
(* record.  config.brand_guidelines is left at its default, the empty dict. *)

(* lines 396-402: _score_title_quality takes len() of the title *)
Qual_Title(st, ch) ==
    LET p == st.product IN
    IF ~Truthy(p.title) THEN st
    ELSE IF p.title = NonStr THEN Raise(st)
    ELSE LET s1 == Metric(st, "title_quality", Pts(ch.q))
         IN IF ch.q < 700 THEN Suggest(s1, "Title quality could be improved") ELSE s1

(* lines 404-412: _score_description_quality takes len() of the description *)
Qual_Description(st, ch) ==
    LET p == st.product IN
    IF st.raised \/ ~Truthy(p.description) THEN st
    ELSE IF p.description = NonStr THEN Raise(st)
    ELSE LET s1 == Metric(st, "description_quality", Pts(ch.q))
         IN IF ch.q < 700 THEN Suggest(s1, "Description quality could be improved")
            ELSE s1

(* lines 414-419 *)
Qual_Completeness(st, lh) ==
    IF st.raised THEN st
    ELSE LET c == _calculate_content_completeness(st.product, st.dictHeap, lh)
             s1 == Metric(st, "completeness_score", c)
         IN IF c < Pts(800) THEN Suggest(s1, "Product information is incomplete") ELSE s1

RECURSIVE SumValues(_)
SumValues(d) ==
    IF d = {} THEN 0
    ELSE LET p == CHOOSE x \in d : TRUE IN p[2] + SumValues(d \ {p})

(* faulty variant: the mean of the two text scores alone *)
Qual_Overall_OfTextScores(st) ==
    IF st.raised THEN st
    ELSE LET texts == {p \in st.metrics : p[1] # "completeness_score"}
         IN Metric(st, "overall_quality",
                   IF texts # EmptyDict
                   THEN SumValues(texts) \div DictLen(texts) ELSE 0)

(* lines 427-433: the mean of the metrics of this pass *)
Qual_Overall(st) ==
    IF st.raised THEN st
    ELSE Metric(st, "overall_quality",
                IF st.metrics # EmptyDict
                THEN SumValues(st.metrics) \div DictLen(st.metrics) ELSE 0)

_apply_quality_scoring(product, dh, lh, ch) ==
    Qual_Overall(Qual_Completeness(
        Qual_Description(Qual_Title(Begin(product, dh), ch), ch), lh))

----------------------------------------------------------------------------
(* Categorization: data_enricher.py 437-478 *)

LowInformation == {"uncategorized", "other", "misc"}

(* category.lower(), of the categories of the model *)
Lower(category) ==
    CASE category = "Other" -> "other"
      [] category = "MISC" -> "misc"
      [] category = "Electronics" -> "electronics"
      [] category = "Toys" -> "toys"
      [] OTHER -> category

(* _generate_category_attributes: data_enricher.py 1160-1194 ('electronics', *)
(* 'clothing' or 'home' in category.lower())                                 *)
_generate_category_attributes(product) ==
    IF product.category = "Electronics"
    THEN {<<"power_source", "Electric">>, <<"warranty", "1 Year">>,
          <<"connectivity", "Wired/Wireless">>}
    ELSE IF product.category = "Clothing & Apparel"
    THEN {<<"care_instructions", "Machine Washable">>, <<"fit", "Regular">>,
          <<"season", "All Season">>}
    ELSE IF product.category = "Home & Garden"
    THEN {<<"room_type", "Living Room">>, <<"assembly_required", "Yes">>,
          <<"style", "Modern">>}
    ELSE EmptyDict

(* the categories that name a keyword set of _calculate_category_confidence *)
(* ('electronics', 'clothing', 'home', 'sports' in category.lower())        *)
ConfidenceKeyed ==
    {"Electronics", "Clothing & Apparel", "Home & Garden", "Sports & Outdoors"}

(* lines 444-456: category.lower() of a non-str raises; _suggest_category   *)
(* (1040-1126) answers from the words of title and description              *)
Cat_Suggest(st, ch) ==
    LET p == st.product IN
    IF p.category = NonStr THEN Raise(st)
    ELSE IF Truthy(p.category) /\ Lower(p.category) \notin LowInformation THEN st
    ELSE IF ~Truthy(ch.suggest) THEN st
    ELSE Suggest(SetField(st, "category", ch.suggest), "Suggested category")

(* lines 458-466 with _calculate_category_confidence (1128-1158) *)
Cat_Confidence(st, ch) ==
    LET p == st.product
        confidence == IF p.category \in ConfidenceKeyed
                      THEN (IF ch.short THEN Pts(300) ELSE Pts(900)) ELSE Pts(500)
    IN IF st.raised \/ ~Truthy(p.category) THEN st
       ELSE LET s1 == Metric(st, "category_confidence", confidence)
            IN IF confidence < Pts(700) THEN Suggest(s1, "Category confidence is low")
               ELSE s1

(* lines 468-476 *)
Cat_Attributes(st) ==
    LET category_attrs == _generate_category_attributes(st.product) IN
    IF st.raised \/ category_attrs = EmptyDict THEN st
    ELSE LET s0 == EnsureAttributes(st)
         IN Suggest([s0 EXCEPT !.dictHeap[s0.product.attributes] =
                                   DictUpdate(@, category_attrs)],
                    "Added category-specific attributes")

_apply_categorization(product, dh, lh, ch) ==
    Cat_Attributes(Cat_Confidence(Cat_Suggest(Begin(product, dh), ch), ch))

----------------------------------------------------------------------------
(* enrich_product: data_enricher.py 93-196 *)

(* the metric names that contain 'quality' or 'score' (line 907) *)
ScoreKeys ==
    {"readability_score", "title_quality", "description_quality",
     "completeness_score", "overall_quality", "amazon_a9_score"}

(* _calculate_enrichment_score: data_enricher.py 901-932 *)
_calculate_enrichment_score(original, enriched, metrics, dh) ==
    LET quality_scores == {p \in metrics : p[1] \in ScoreKeys}
        base_score == IF quality_scores # {}
                      THEN SumValues(quality_scores) \div Cardinality(quality_scores)
                      ELSE Pts(500)
        original_attrs == DictLen(dh[original.attributes])
        enriched_attrs == DictLen(dh[enriched.attributes])
        improvement_bonus ==
            (IF enriched.title # original.title THEN Pts(100) ELSE 0)
            + (IF enriched.description # original.description THEN Pts(150) ELSE 0)
            + (IF enriched_attrs > original_attrs
                  THEN Min(Pts(200), (enriched_attrs - original_attrs) * Pts(20)) ELSE 0)
            + (IF enriched.category # original.category /\ Truthy(enriched.category)
                  THEN Pts(50) ELSE 0)
    IN Min(Pts(1000), base_score + improvement_bonus)

(* the branches of the dispatch, lines 125-171 *)
Dispatched ==
    {SEO_OPTIMIZATION, CONTENT_GENERATION, AMAZON_OPTIMIZATION, QUALITY_SCORING,
     CATEGORIZATION}

ApplyPass(type, product, dh, lh, ch) ==
    CASE type = SEO_OPTIMIZATION -> _apply_seo_optimization(product, dh, lh, ch)
      [] type = CONTENT_GENERATION -> _apply_content_generation(product, dh, lh, ch)
      [] type = AMAZON_OPTIMIZATION -> _apply_amazon_optimization(product, dh, lh, ch)
      [] type = QUALITY_SCORING -> _apply_quality_scoring(product, dh, lh, ch)
      [] type = CATEGORIZATION -> _apply_categorization(product, dh, lh, ch)

FailureNote(type) == <<"Failed to apply", type>>

(* one entry of the model's record of what an activation did: the pass,   *)
(* the record it was handed and the record it left                          *)
LogEntry(type, st, arg, dh, lh) ==
    [type |-> type, raised |-> st.raised,
     before |-> Deep(arg, dh, lh),
     after |-> Deep(st.product, st.dictHeap, lh)]

(* the record every pass is handed: `enriched`, lines 130-168 *)
(* faulty variant: every pass is handed the original *)
PassArgumentOriginal(task) == task.product
PassArgument(task) == task.enriched

(* a branch that returned: lines 131-133 and alike *)
OnSuccess(task, st, type) ==
    [task EXCEPT !.quality_metrics = DictUpdate(@, st.metrics),
                 !.suggestions = @ \o st.suggestions,
                 !.applied_enrichments = Append(@, type)]

(* except Exception, lines 173-175 *)
(* faulty variants: the exception leaves enrich_product; the pass is     *)
(* counted as applied; no note is left                                   *)
OnRaisePropagates(task, st, type) == [task EXCEPT !.status = "failed"]
OnRaiseStillApplied(task, st, type) ==
    [task EXCEPT !.suggestions = Append(@, FailureNote(type)),
                 !.applied_enrichments = Append(@, type)]
OnRaiseSilent(task, st, type) == task
(* faulty variant: the fields go back to what the pass was handed *)
OnRaiseRolledBack(task, st, type) ==
    LET before == task.log[Len(task.log)].before
    IN [task EXCEPT !.suggestions = Append(@, FailureNote(type)),
                    !.enriched.title = before.title,
                    !.enriched.description = before.description,
                    !.enriched.category = before.category]
OnRaise(task, st, type) ==
    [task EXCEPT !.suggestions = Append(@, FailureNote(type))]

(* the body of the loop over enabled_types, lines 123-175, for one type:    *)
(* the task after it and the heap after it                                  *)
LoopBody(task, type, dh, lh, ch) ==
    IF type \notin Dispatched THEN [task |-> [task EXCEPT !.pc = @ + 1], dictHeap |-> dh]
    ELSE LET arg == PassArgument(task)
             st == ApplyPass(type, arg, dh, lh, ch)
             t1 == [task EXCEPT !.enriched = st.product, !.pc = @ + 1,
                                !.log = Append(@, LogEntry(type, st, arg, dh, lh))]
         IN [task |-> IF st.raised THEN OnRaise(t1, st, type)
                      ELSE OnSuccess(t1, st, type),
             dictHeap |-> st.dictHeap]

(* ProductData(...) as the caller builds it: xml_processor.py 19-36 *)
NewProduct(f, dh, lh) ==
    [product |-> [id |-> f.id, title |-> f.title, description |-> f.description,
                  price |-> f.price, category |-> f.category, brand |-> f.brand,
                  sku |-> f.sku, attributes |-> Len(dh) + 1, images |-> Len(lh) + 1],
     dictHeap |-> Append(dh, f.attributes), listHeap |-> Append(lh, f.images)]

NewTask(product, dh, lh) ==
    [product |-> product, status |-> "pending", enriched |-> NoneV,
     applied_enrichments |-> <<>>, quality_metrics |-> EmptyDict,
     suggestions |-> <<>>, pc |-> 0, log |-> <<>>, result |-> NoneV,
     pre |-> IF ~IsProduct(product) THEN NoneV ELSE Deep(product, dh, lh)]

(* EnrichmentResult(...), lines 182-189 *)
EnrichmentResult(task, dh) ==
    [original_product |-> task.product, enriched_product |-> task.enriched,
     enrichment_score |-> _calculate_enrichment_score(task.product, task.enriched,
                                                      task.quality_metrics, dh),
     applied_enrichments |-> task.applied_enrichments,
     quality_metrics |-> task.quality_metrics, suggestions |-> task.suggestions]

(* asyncio.Semaphore(5), line 213 *)
SemaphoreLimit == 5

InFlight == {t \in DOMAIN tasks : tasks[t].status = "running"}
Settled == \A t \in DOMAIN tasks : tasks[t].status \in {"done", "failed"}

(* the caller awaits enrich_product(product) *)
CallEnrich(f, limit) ==
    /\ call = "idle" /\ calls < limit
    /\ LET n == IF ~IsProduct(f)
                THEN [product |-> NotAProduct, dictHeap |-> dictHeap, listHeap |-> listHeap]
                ELSE NewProduct(f, dictHeap, listHeap)
       IN /\ dictHeap' = n.dictHeap
          /\ listHeap' = n.listHeap
          /\ tasks' = <<NewTask(n.product, n.dictHeap, n.listHeap)>>
    /\ call' = "single" /\ calls' = calls + 1
    /\ UNCHANGED <<config, enrichment_history, semaphore, returned, completed>>
    /\ UNCHANGED analyticsVars

RECURSIVE BuildBatch(_, _, _)
BuildBatch(fs, dh, lh) ==
    IF fs = <<>> THEN [tasks |-> <<>>, dictHeap |-> dh, listHeap |-> lh]
    ELSE LET n == IF ~IsProduct(Head(fs))
                  THEN [product |-> NotAProduct, dictHeap |-> dh, listHeap |-> lh]
                  ELSE NewProduct(Head(fs), dh, lh)
             rest == BuildBatch(Tail(fs), n.dictHeap, n.listHeap)
         IN [tasks |-> <<NewTask(n.product, n.dictHeap, n.listHeap)>> \o rest.tasks,
             dictHeap |-> rest.dictHeap, listHeap |-> rest.listHeap]

(* the caller awaits enrich_products_batch(products): lines 210-219 *)
CallBatch(fs, limit) ==
    /\ call = "idle" /\ calls < limit
    /\ LET b == BuildBatch(fs, dictHeap, listHeap)
       IN /\ dictHeap' = b.dictHeap
          /\ listHeap' = b.listHeap
          /\ tasks' = b.tasks
    /\ semaphore' = SemaphoreLimit
    /\ call' = "batch" /\ calls' = calls + 1
    /\ UNCHANGED <<config, enrichment_history, returned, completed>>
    /\ UNCHANGED analyticsVars

(* product.id (line 103) raises on an item that is no ProductData, and     *)
(* product.attributes.copy() (line 110) on attributes that are no dict     *)
RaisesOutright(product, dh) ==
    \/ ~IsProduct(product)
    \/ Attrs(dh, product) = NotADict

(* faulty variant: the semaphore admits everyone *)
CanAcquireAlways(s) == TRUE
(* `async with semaphore`, line 216 *)
CanAcquire(s) == s > 0

(* entering the semaphore (tasks start and are woken in the order gather    *)
(* created them) and enrich_product up to its loop, lines 103-120           *)
Start(t) ==
    /\ call \in {"single", "batch"}
    /\ t \in DOMAIN tasks /\ tasks[t].status = "pending"
    /\ \A u \in 1..(t - 1) : tasks[u].status # "pending"
    /\ call = "batch" => CanAcquire(semaphore)
    /\ IF RaisesOutright(tasks[t].product, dictHeap)
       THEN /\ tasks' = [tasks EXCEPT ![t].status = "failed"]
            /\ UNCHANGED <<dictHeap, listHeap, semaphore>>
       ELSE LET c == CopyProduct(tasks[t].product, dictHeap, listHeap)
            IN /\ tasks' = [tasks EXCEPT ![t].status = "running", ![t].pc = 1,
                                         ![t].enriched = c.product]
               /\ dictHeap' = c.dictHeap
               /\ listHeap' = c.listHeap
               /\ semaphore' = IF call = "batch" THEN semaphore - 1 ELSE semaphore
    /\ UNCHANGED <<config, enrichment_history, call, returned, calls, completed>>
    /\ UNCHANGED analyticsVars

(* one turn of the loop, lines 123-175 *)
RunPass(t, ch) ==
    /\ t \in DOMAIN tasks /\ tasks[t].status = "running"
    /\ tasks[t].pc <= Len(config)
    /\ LET r == LoopBody(tasks[t], config[tasks[t].pc], dictHeap, listHeap, ch)
       IN /\ tasks' = [tasks EXCEPT ![t] = r.task]
          /\ dictHeap' = r.dictHeap
          /\ semaphore' = IF call = "batch" /\ r.task.status = "failed"
                          THEN semaphore + 1 ELSE semaphore
    /\ UNCHANGED <<config, enrichment_history, listHeap, call, returned, calls,
                   completed>>
    /\ UNCHANGED analyticsVars

(* self.enrichment_history.append(result), line 191 *)
(* faulty variant: the history keeps the last result only *)
HistoryReplace(history, result) == <<result>>
HistoryAppend(history, result) == Append(history, result)

(* lines 177-196, and the release of the semaphore on leaving line 216 *)
Finish(t) ==
    /\ t \in DOMAIN tasks /\ tasks[t].status = "running"
    /\ tasks[t].pc > Len(config)
    /\ LET result == EnrichmentResult(tasks[t], dictHeap)
       IN /\ enrichment_history' = HistoryAppend(enrichment_history, result)
          /\ tasks' = [tasks EXCEPT ![t].status = "done", ![t].result = result]
    /\ completed' = Append(completed, <<calls, t>>)
    /\ semaphore' = IF call = "batch" THEN semaphore + 1 ELSE semaphore
    /\ UNCHANGED <<config, dictHeap, listHeap, call, returned, calls>>
    /\ UNCHANGED analyticsVars

(* enrich_product returns to its caller, or raises *)
ReturnEnrich ==
    /\ call = "single" /\ Settled
    /\ returned' = IF tasks[1].status = "done"
                   THEN [kind |-> "result", value |-> <<tasks[1].result>>]
                   ELSE [kind |-> "raised", value |-> <<>>]
    /\ call' = "idle"
    /\ UNCHANGED <<config, enrichment_history, dictHeap, listHeap, tasks, semaphore,
                   calls, completed>>
    /\ UNCHANGED analyticsVars

(* asyncio.gather with return_exceptions=True and the filter, lines 220-233 *)
RECURSIVE ValidResults(_)
ValidResults(ts) ==
    IF ts = <<>> THEN <<>>
    ELSE (IF Head(ts).status = "done" THEN <<Head(ts).result>> ELSE <<>>)
         \o ValidResults(Tail(ts))

(* the f-string of logger.error, line 226, reads products[i].id of every    *)
(* item whose result is an exception                                        *)
FilterRaises(ts) ==
    \E i \in DOMAIN ts : ts[i].status = "failed" /\ ~IsProduct(ts[i].product)

ReturnBatch ==
    /\ call = "batch" /\ Settled
    /\ returned' = IF FilterRaises(tasks)
                   THEN [kind |-> "batch_raised", value |-> <<>>]
                   ELSE [kind |-> "results", value |-> ValidResults(tasks)]
    /\ call' = "idle"
    /\ UNCHANGED <<config, enrichment_history, dictHeap, listHeap, tasks, semaphore,
                   calls, completed>>
    /\ UNCHANGED analyticsVars

(* get_enrichment_statistics: data_enricher.py 1391-1412 (the count) *)
get_enrichment_statistics ==
    IF enrichment_history = <<>> THEN [total_enrichments |-> 0]
    ELSE [total_enrichments |-> Len(enrichment_history)]

----------------------------------------------------------------------------
(* The enricher under single calls of enrich_product *)

Fields(t, d, c, a, rich) ==
    [id |-> "p1", title |-> t, description |-> d,
     price |-> IF rich THEN 1999 ELSE NoPrice, category |-> c,
     brand |-> IF rich THEN "Acme" ELSE NoneV, sku |-> IF rich THEN "S1" ELSE NoneV,
     attributes |-> a, images |-> IF rich THEN <<"u1", "u2">> ELSE <<>>]

InputRecords ==
    {Fields(t, d, c, a, rich) :
        t \in {NoneV, NonStr, "T"}, d \in {NoneV, NonStr, "D"},
        c \in {NoneV, NonStr, "other", "Electronics"},
        a \in {EmptyDict, {<<"material", "steel">>}}, rich \in BOOLEAN}

(* AnalyticsProcessor.__init__ with the default AnalyticsConfig *)
DefaultRetentionDays == 365
EmptyStore == [n \in {} |-> <<>>]
NoAnalysis == [op |-> "none", args |-> <<>>, error |-> FALSE, values |-> <<>>]
EmptyCache == [id \in {} |-> NoAnalysis]

InitAnalyticsIdle ==
    /\ metrics_store = EmptyStore /\ alert_history = <<>>
    /\ alert_thresholds = <<>> /\ retention_days = DefaultRetentionDays
    /\ tracked = <<>> /\ analysis = NoAnalysis /\ now = 0
    /\ store_keys = <<>> /\ reports_cache = EmptyCache /\ reports = <<>>
    /\ seconds = 0

InitEnricher(configs) ==
    /\ config \in configs
    /\ enrichment_history = <<>>
    /\ dictHeap = <<>> /\ listHeap = <<>>
    /\ tasks = <<>> /\ call = "idle" /\ semaphore = 0
    /\ returned = [kind |-> "none", value |-> <<>>]
    /\ calls = 0 /\ completed = <<>>

Init == InitEnricher(SeqsUpTo(EnrichmentType, MaxTypes)) /\ InitAnalyticsIdle

Next ==
    \/ \E f \in InputRecords : CallEnrich(f, MaxCalls)
    \/ CallEnrich(NotAProduct, MaxCalls)
    \/ \E t \in DOMAIN tasks : Start(t)
    \/ \E t \in DOMAIN tasks, ch \in Choices : RunPass(t, ch)
    \/ \E t \in DOMAIN tasks : Finish(t)
    \/ ReturnEnrich

Spec == Init /\ [][Next]_vars

----------------------------------------------------------------------------
(* Properties of enrich_product *)

Range(s) == {s[i] : i \in DOMAIN s}
Count(s, x) == Cardinality({i \in DOMAIN s : s[i] = x})
Types(log) == [i \in DOMAIN log |-> log[i].type]
IsDispatched(type) == type \in Dispatched
NotRaised(e) == ~e.raised
Started(k) == IsProduct(k.product) /\ k.status # "pending"
DeepEnriched(k) == Deep(k.enriched, dictHeap, listHeap)
CompletenessOfDeep(d) ==
    _calculate_content_completeness([d EXCEPT !.attributes = 1, !.images = 1],
                                    <<d.attributes>>, <<d.images>>)

(* C1: a pass that raises is caught: the activation goes on (it never       *)
(* fails), suggestions holds exactly one failure note per raise of each     *)
(* pass, every enabled pass with a branch is run whatever raised before it, *)
(* and the call returns an EnrichmentResult.                                *)
C1_PassFailureIsolated ==
    \A t \in DOMAIN tasks :
        LET k == tasks[t] IN
        Started(k) =>
            /\ k.status \in {"running", "done"}
            /\ \A type \in EnrichmentType :
                   Count(k.suggestions, FailureNote(type))
                   = Cardinality({i \in DOMAIN k.log :
                                      k.log[i].type = type /\ k.log[i].raised})
            /\ Len(k.log) = Len(SelectSeq(SubSeq(config, 1, k.pc - 1), IsDispatched))
            /\ (k.status = "done" => k.pc = Len(config) + 1)
            /\ (call = "idle" =>
                   /\ k.status = "done"
                   /\ returned = [kind |-> "result", value |-> <<k.result>>]
                   /\ k.result.suggestions = k.suggestions)

C1_Witness ==
    /\ call = "idle" /\ tasks # <<>> /\ tasks[1].status = "done"
    /\ returned.kind = "result"
    /\ \E i, j \in DOMAIN tasks[1].log :
           i < j /\ tasks[1].log[i].raised /\ ~tasks[1].log[j].raised

(* C2: the passes run in the order of enabled_types, the first on the copy  *)
(* of the original and each next one on the record as the pass before left  *)
(* it, so that what categorization wrote is what quality scoring scores.    *)
C2_OrderAndCumulativeCopy ==
    \A t \in DOMAIN tasks :
        LET k == tasks[t]
            n == Len(k.log)
        IN
        Started(k) =>
            /\ Types(k.log) = SelectSeq(SubSeq(config, 1, k.pc - 1), IsDispatched)
            /\ (n > 0 => k.log[1].before = k.pre)
            /\ \A i \in 1..(n - 1) : k.log[i + 1].before = k.log[i].after
            /\ (n > 0 => DeepEnriched(k) = k.log[n].after)
            /\ (n > 0 /\ k.log[n].type = QUALITY_SCORING /\ ~k.log[n].raised =>
                   DictGet(k.quality_metrics, "completeness_score")
                   = CompletenessOfDeep(k.log[n].before))

C2_Witness ==
    \E t \in DOMAIN tasks :
        LET k == tasks[t] IN
        /\ k.status = "done" /\ Len(k.log) = 2
        /\ k.log[1].type = CATEGORIZATION /\ k.log[2].type = QUALITY_SCORING
        /\ ~k.log[1].raised /\ ~k.log[2].raised
        /\ ~DictHas(k.log[1].before.attributes, "power_source")
        /\ DictHas(k.log[2].before.attributes, "power_source")
        /\ DictGet(k.quality_metrics, "completeness_score")
           > CompletenessOfDeep(k.log[1].before)

(* C3: the record handed to enrich_product keeps the value it had before    *)
(* the call, whatever the passes write and whether or not they raise, and   *)
(* the enriched record holds its own attributes and images objects.         *)
C3_OriginalNeverMutated ==
    \A t \in DOMAIN tasks :
        LET k == tasks[t] IN
        IsProduct(k.product) =>
            /\ Deep(k.product, dictHeap, listHeap) = k.pre
            /\ (k.status \in {"running", "done"} =>
                   /\ k.enriched.attributes # k.product.attributes
                   /\ k.enriched.images # k.product.images)
            /\ (k.status = "done" =>
                   /\ k.result.original_product = k.product
                   /\ k.result.enriched_product = k.enriched)

C3_Witness ==
    \E t \in DOMAIN tasks :
        LET k == tasks[t] IN
        /\ k.status = "done"
        /\ \E i \in DOMAIN k.log : k.log[i].raised
        /\ k.pre.attributes # EmptyDict
        /\ DeepEnriched(k).attributes # k.pre.attributes
        /\ DeepEnriched(k).title # k.pre.title

(* C4 (as amended): applied_enrichments holds, in the order of              *)
(* enabled_types, exactly the passes that have a branch in enrich_product   *)
(* and returned without raising; multi_channel and translation, which have  *)
(* no branch, never appear in it.                                           *)
C4_AppliedAreDispatchedNotRaised ==
    \A t \in DOMAIN tasks :
        LET k == tasks[t] IN
        Started(k) =>
            /\ k.applied_enrichments = Types(SelectSeq(k.log, NotRaised))
            /\ Types(k.log) = SelectSeq(SubSeq(config, 1, k.pc - 1), IsDispatched)
            /\ (k.status = "done" =>
                   /\ k.pc = Len(config) + 1
                   /\ k.result.applied_enrichments = k.applied_enrichments)

C4_Witness ==
    \E t \in DOMAIN tasks :
        LET k == tasks[t] IN
        /\ k.status = "done"
        /\ \E i \in DOMAIN k.log : k.log[i].raised
        /\ k.applied_enrichments # <<>>

(* C4 as stated: every enabled identifier whose pass did not raise is in    *)
(* applied_enrichments.                                                     *)
C4_EveryEnabledNotRaisedIsApplied ==
    \A t \in DOMAIN tasks :
        LET k == tasks[t] IN
        (Started(k) /\ k.status = "done") =>
            \A i \in DOMAIN config :
                (\A e \in Range(k.log) : e.type = config[i] => ~e.raised)
                    => config[i] \in Range(k.applied_enrichments)

----------------------------------------------------------------------------
(* The enricher under one wide call of enrich_products_batch: more records  *)
(* than the semaphore admits                                                *)

WideRecord == Fields("T", "D", "Electronics", EmptyDict, FALSE)
WideBatches == UNION {[1..n -> {WideRecord}] : n \in 1..MaxWide}
WideChoices == {ch \in Choices : ~ch.short /\ ch.differs /\ ch.q = 900
                                 /\ ch.suggest = NoneV}

InitSem ==
    /\ InitEnricher({<<>>, <<QUALITY_SCORING>>})
    /\ InitAnalyticsIdle

NextSem ==
    \/ \E fs \in WideBatches : CallBatch(fs, MaxCalls)
    \/ \E t \in DOMAIN tasks : Start(t)
    \/ \E t \in DOMAIN tasks, ch \in WideChoices : RunPass(t, ch)
    \/ \E t \in DOMAIN tasks : Finish(t)
    \/ ReturnBatch

SpecSem == InitSem /\ [][NextSem]_vars

(* C5: while enrich_products_batch runs, at most 5 of its activations of    *)
(* enrich_product are inside `async with semaphore` at any moment, and the  *)
(* semaphore's value is 5 minus their number.                               *)
C5_AtMostFiveInFlight ==
    call = "batch" =>
        /\ Cardinality(InFlight) <= 5
        /\ semaphore = 5 - Cardinality(InFlight)

(* five activations are inside the semaphore and a sixth is waiting for it *)
C5_Witness ==
    /\ call = "batch"
    /\ Cardinality(InFlight) = 5
    /\ \E t \in DOMAIN tasks : tasks[t].status = "pending"

----------------------------------------------------------------------------
(* The enricher under calls of enrich_product and enrich_products_batch,    *)
(* with records whose passes raise and items whose enrichment raises        *)
(* outright                                                                 *)

GoodRecord == Fields("T", "D", "Electronics", EmptyDict, FALSE)
(* a description that is no str: the SEO pass raises on it *)
PassFailingRecord == Fields("T", NonStr, "Electronics", EmptyDict, FALSE)
(* attributes that cannot be copied: enrich_product raises at line 110 *)
UncopyableRecord == Fields("T", "D", "Electronics", NotADict, FALSE)

BatchItems == {GoodRecord, PassFailingRecord, UncopyableRecord, NotAProduct}
Batches == SeqsUpTo(BatchItems, MaxBatch)
BatchConfigs == {<<SEO_OPTIMIZATION>>, <<CATEGORIZATION, SEO_OPTIMIZATION>>}
BatchChoices == {ch \in Choices : ch.differs /\ ch.q = 900 /\ ch.suggest = NoneV}

InitBatch ==
    /\ InitEnricher(BatchConfigs)
    /\ InitAnalyticsIdle

NextBatch ==
    \/ \E f \in BatchItems : CallEnrich(f, MaxBatchCalls)
    \/ \E fs \in Batches : CallBatch(fs, MaxBatchCalls)
    \/ \E t \in DOMAIN tasks : Start(t)
    \/ \E t \in DOMAIN tasks, ch \in BatchChoices : RunPass(t, ch)
    \/ \E t \in DOMAIN tasks : Finish(t)
    \/ ReturnEnrich
    \/ ReturnBatch

SpecBatch == InitBatch /\ [][NextBatch]_vars

BatchReturned == call = "idle" /\ returned.kind \in {"results", "batch_raised"}
IsFailed(k) == k.status = "failed"
IsDone(k) == k.status = "done"
Products(ts) == [i \in DOMAIN ts |-> ts[i].product]
Originals(rs) == [i \in DOMAIN rs |-> rs[i].original_product]
PassRaised(k) == \E i \in DOMAIN k.log : k.log[i].raised

(* C6: when enrich_product raises outright for a record of a batch, the    *)
(* batch call does not raise, the record is left out of the returned       *)
(* sequence, and every other record contributes exactly one result, in the *)
(* order of the batch.                                                      *)
C6_OutrightFailureExcluded ==
    (BatchReturned /\ \E t \in DOMAIN tasks : IsFailed(tasks[t])) =>
        /\ returned.kind = "results"
        /\ Len(returned.value) = Len(SelectSeq(tasks, IsDone))
        /\ Originals(returned.value) = Products(SelectSeq(tasks, IsDone))
        /\ \A t \in DOMAIN tasks :
               IsFailed(tasks[t]) <=> RaisesOutright(tasks[t].product, dictHeap)

(* C7: when no item of a batch fails outright, the batch returns exactly   *)
(* one result per input record, in input order, whatever passes raised;    *)
(* a pass that raised for a record left its failure note among the         *)
(* suggestions of that record's result.                                    *)
C7_PassFailureKeepsBatchWhole ==
    (BatchReturned
     /\ \A t \in DOMAIN tasks : ~RaisesOutright(tasks[t].product, dictHeap)) =>
        /\ returned.kind = "results"
        /\ Len(returned.value) = Len(tasks)
        /\ Originals(returned.value) = Products(tasks)
        /\ \A t \in DOMAIN tasks : \A i \in DOMAIN tasks[t].log :
               tasks[t].log[i].raised =>
                   FailureNote(tasks[t].log[i].type)
                       \in Range(returned.value[t].suggestions)

C7_Witness ==
    /\ BatchReturned /\ returned.kind = "results"
    /\ Len(returned.value) = 2
    /\ \E t, u \in DOMAIN tasks : PassRaised(tasks[t]) /\ ~PassRaised(tasks[u])

(* C8: the history starts empty; it holds one result per activation of     *)
(* enrich_product that ran to its end, in the order they ended; a step     *)
(* either leaves it alone or appends one entry; get_enrichment_statistics  *)
(* reports its length as total_enrichments.                                *)
C8_HistoryMatchesCompleted ==
    /\ Len(enrichment_history) = Len(completed)
    /\ get_enrichment_statistics.total_enrichments = Len(completed)
    /\ \A i \in DOMAIN completed :
           completed[i][1] = calls =>
               enrichment_history[i] = tasks[completed[i][2]].result

C8_HistoryOnlyGrows ==
    \/ enrichment_history' = enrichment_history
    \/ /\ Len(enrichment_history') = Len(enrichment_history) + 1
       /\ SubSeq(enrichment_history', 1, Len(enrichment_history)) = enrichment_history

C8_HistoryAppendOnly ==
    /\ enrichment_history = <<>>
    /\ []C8_HistoryMatchesCompleted
    /\ [][C8_HistoryOnlyGrows]_vars

(* three results from two calls, the batch's second record ending first *)
C8_Witness ==
    /\ Len(enrichment_history) = 3
    /\ get_enrichment_statistics.total_enrichments = 3
    /\ completed[1][1] # completed[3][1]
    /\ completed[2][1] = completed[3][1]
    /\ completed[2][2] > completed[3][2]

----------------------------------------------------------------------------
(* AnalyticsProcessor: the metric store and the alert evaluator.            *)
(* A name is the sequence of its characters; values and thresholds are      *)
(* integers; a timestamp is a day number.                                   *)

MetricData(name, value, timestamp) ==
    [metric_name |-> name, value |-> value, timestamp |-> timestamp]

(* `threshold_name in metric.metric_name`, line 1016 *)
IsSubstring(s, t) ==
    \E i \in 0..(Len(t) - Len(s)) : SubSeq(t, i + 1, i + Len(s)) = s

(* 'warning' if metric.value > threshold_value * 0.8 else 'critical',       *)
(* lines 1022-1024; in integers, value > 0.8 * t is 5 * value > 4 * t       *)
(* faulty variant: >= for > *)
SeverityInclusive(value, threshold_value) ==
    IF 5 * value >= 4 * threshold_value THEN "warning" ELSE "critical"
Severity(value, threshold_value) ==
    IF 5 * value > 4 * threshold_value THEN "warning" ELSE "critical"

(* the loop over alert_thresholds.items(), lines 1015-1027: the alerts one  *)
(* point appends, in the order of the mapping                               *)
RECURSIVE AlertsOf(_, _, _)
AlertsOf(metric, thresholds, clock) ==
    IF thresholds = <<>> THEN <<>>
    ELSE LET threshold_name == Head(thresholds)[1]
             threshold_value == Head(thresholds)[2]
         IN (IF IsSubstring(threshold_name, metric.metric_name)
                /\ metric.value < threshold_value
             THEN <<[timestamp |-> clock, metric_name |-> metric.metric_name,
                     value |-> metric.value, threshold |-> threshold_value,
                     severity |-> Severity(metric.value, threshold_value)]>>
             ELSE <<>>)
            \o AlertsOf(metric, Tail(thresholds), clock)

_check_alerts(metric, thresholds, clock) ==
    IF thresholds = <<>> THEN <<>> ELSE AlertsOf(metric, thresholds, clock)

(* self.metrics_store[metric.metric_name].append(metric), line 126: the     *)
(* defaultdict makes the list of a new name; the clock and retention_days   *)
(* are not consulted                                                        *)
(* faulty variant: points older than retention_days are dropped *)
StoreAppendEvicting(store, metric, clock, retention) ==
    LET fresh(p) == p.timestamp >= clock - retention
    IN [n \in DOMAIN store \cup {metric.metric_name} |->
           LET old == IF n \in DOMAIN store THEN SelectSeq(store[n], fresh) ELSE <<>>
           IN IF n = metric.metric_name THEN Append(old, metric) ELSE old]
StoreAppend(store, metric, clock, retention) ==
    [n \in DOMAIN store \cup {metric.metric_name} |->
        LET old == IF n \in DOMAIN store THEN store[n] ELSE <<>>
        IN IF n = metric.metric_name THEN Append(old, metric) ELSE old]

(* faulty variant: a threshold that already alerted for the metric name is  *)
(* not reported again                                                       *)
TrackedDeduplicating(st, metric) ==
    LET isNew(a) == \A k \in DOMAIN st.alerts :
                        \/ st.alerts[k].metric_name # a.metric_name
                        \/ st.alerts[k].threshold # a.threshold
    IN [store |-> StoreAppend(st.store, metric, now, retention_days),
        alerts |-> st.alerts
                   \o SelectSeq(_check_alerts(metric, alert_thresholds, now), isNew)]
(* the key order of the dict: a name is added at the end when its list is  *)
(* made, line 126                                                           *)
RECURSIVE KeysAfter(_, _)
KeysAfter(keys, metrics) ==
    IF metrics = <<>> THEN keys
    ELSE LET n == Head(metrics).metric_name
         IN KeysAfter(IF \E i \in DOMAIN keys : keys[i] = n THEN keys
                      ELSE Append(keys, n), Tail(metrics))

(* track_metric, lines 119-131, on the processor's state *)
Tracked(st, metric) ==
    [store |-> StoreAppend(st.store, metric, now, retention_days),
     alerts |-> st.alerts \o _check_alerts(metric, alert_thresholds, now)]

RECURSIVE TrackedAll(_, _)
TrackedAll(st, metrics) ==
    IF metrics = <<>> THEN st
    ELSE TrackedAll(Tracked(st, Head(metrics)), Tail(metrics))

track_metric(metric) ==
    /\ Len(tracked) < MaxPoints
    /\ LET st == Tracked([store |-> metrics_store, alerts |-> alert_history], metric)
       IN /\ metrics_store' = st.store
          /\ alert_history' = st.alerts
    /\ tracked' = Append(tracked, metric)
    /\ store_keys' = KeysAfter(store_keys, <<metric>>)
    /\ UNCHANGED <<alert_thresholds, retention_days, analysis, now>>
    /\ UNCHANGED reportVars
    /\ UNCHANGED enrichVars

(* track_metrics_batch, lines 133-143 *)
track_metrics_batch(metrics) ==
    /\ Len(tracked) + Len(metrics) <= MaxPoints
    /\ LET st == TrackedAll([store |-> metrics_store, alerts |-> alert_history],
                            metrics)
       IN /\ metrics_store' = st.store
          /\ alert_history' = st.alerts
    /\ tracked' = tracked \o metrics
    /\ store_keys' = KeysAfter(store_keys, metrics)
    /\ UNCHANGED <<alert_thresholds, retention_days, analysis, now>>
    /\ UNCHANGED reportVars
    /\ UNCHANGED enrichVars

(* list.sort(key=timestamp) of a list local to the call: stable *)
RECURSIVE InsertByTimestamp(_, _)
InsertByTimestamp(sorted, m) ==
    IF sorted = <<>> THEN <<m>>
    ELSE IF Head(sorted).timestamp <= m.timestamp
         THEN <<Head(sorted)>> \o InsertByTimestamp(Tail(sorted), m)
         ELSE <<m>> \o sorted

RECURSIVE SortByTimestamp(_)
SortByTimestamp(ms) ==
    IF ms = <<>> THEN <<>>
    ELSE InsertByTimestamp(SortByTimestamp(SubSeq(ms, 1, Len(ms) - 1)), ms[Len(ms)])

ValuesOf(ms) == [i \in DOMAIN ms |-> ms[i].value]

(* faulty variant: only a name that was never tracked is an error *)
perform_trend_analysis_ErrorOnUnknownOnly(metric_name, days) ==
    /\ LET inWindow(m) == now - days <= m.timestamp /\ m.timestamp <= now
           known == metric_name \in DOMAIN metrics_store
           metric_data == IF known THEN SelectSeq(metrics_store[metric_name], inWindow)
                          ELSE <<>>
       IN analysis' = [op |-> "trend", args |-> <<metric_name, days>>,
                       error |-> ~known,
                       values |-> ValuesOf(SortByTimestamp(metric_data))]
    /\ UNCHANGED <<metrics_store, alert_history, alert_thresholds, retention_days,
                   tracked, now, store_keys>>
    /\ UNCHANGED reportVars
    /\ UNCHANGED enrichVars

(* perform_trend_analysis, lines 321-373: the points of the window, copied  *)
(* into a list of the call and sorted there; the values analysed            *)
(* faulty variant: the list is read without the membership test of line    *)
(* 339, and the defaultdict makes an empty list under a name it never held *)
perform_trend_analysis_Unguarded(metric_name, days) ==
    /\ analysis' = [op |-> "trend", args |-> <<metric_name, days>>,
                    error |-> TRUE, values |-> <<>>]
    /\ metrics_store' = [n \in DOMAIN metrics_store \cup {metric_name} |->
                             IF n \in DOMAIN metrics_store THEN metrics_store[n]
                             ELSE <<>>]
    /\ UNCHANGED <<alert_history, alert_thresholds, retention_days,
                   tracked, now, store_keys>>
    /\ UNCHANGED reportVars
    /\ UNCHANGED enrichVars
perform_trend_analysis(metric_name, days) ==
    /\ LET end_date == now
           start_date == end_date - days
           inWindow(m) == start_date <= m.timestamp /\ m.timestamp <= end_date
           metric_data == IF metric_name \in DOMAIN metrics_store
                          THEN SelectSeq(metrics_store[metric_name], inWindow)
                          ELSE <<>>
       IN analysis' = IF metric_data = <<>>
                      THEN [op |-> "trend", args |-> <<metric_name, days>>,
                            error |-> TRUE, values |-> <<>>]
                      ELSE [op |-> "trend", args |-> <<metric_name, days>>,
                            error |-> FALSE,
                            values |-> ValuesOf(SortByTimestamp(metric_data))]
    /\ UNCHANGED <<metrics_store, alert_history, alert_thresholds, retention_days,
                   tracked, now, store_keys>>
    /\ UNCHANGED reportVars
    /\ UNCHANGED enrichVars

RECURSIVE SumLens(_, _)
SumLens(store, names) ==
    IF names = {} THEN 0
    ELSE LET n == CHOOSE x \in names : TRUE
         IN Len(store[n]) + SumLens(store, names \ {n})

(* get_analytics_summary, lines 1207-1220 *)
get_analytics_summary ==
    /\ analysis' = [op |-> "summary", args |-> <<>>, error |-> FALSE,
                    values |-> <<SumLens(metrics_store, DOMAIN metrics_store),
                                 Cardinality(DOMAIN metrics_store),
                                 Cardinality(DOMAIN reports_cache),
                                 Len(alert_history), retention_days>>]
    /\ UNCHANGED <<metrics_store, alert_history, alert_thresholds, retention_days,
                   tracked, now, store_keys>>
    /\ UNCHANGED reportVars
    /\ UNCHANGED enrichVars

----------------------------------------------------------------------------
(* The analytics processor under track, track_batch and analytics calls *)

Epoch == DefaultRetentionDays + 35
MetricNames == {<<"c", "t", "r">>, <<"c", "r">>}
ThresholdNames == {<<"c">>, <<"c", "r">>}
Values == {4, 8, 9, 10}
Timestamps == {0, Epoch}
Points == {MetricData(n, v, ts) : n \in MetricNames, v \in Values, ts \in Timestamps}
MetricBatches == {<<>>} \cup [1..2 -> {m \in Points : m.value \in {8, 10}}]
ThresholdMaps ==
    {th \in SeqsUpTo(ThresholdNames \X {10}, MaxThresholds) :
        \A i, j \in DOMAIN th : th[i][1] = th[j][1] => i = j}

InitAnalytics ==
    /\ InitEnricher({<<>>})
    /\ metrics_store = EmptyStore /\ alert_history = <<>>
    /\ alert_thresholds \in ThresholdMaps
    /\ retention_days \in {1, DefaultRetentionDays}
    /\ tracked = <<>> /\ analysis = NoAnalysis /\ now = Epoch
    /\ store_keys = <<>> /\ reports_cache = EmptyCache /\ reports = <<>>
    /\ seconds = 0

NextAnalytics ==
    \/ \E m \in Points : track_metric(m)
    \/ \E ms \in MetricBatches : track_metrics_batch(ms)
    \/ \E n \in MetricNames, days \in {30, 500} : perform_trend_analysis(n, days)
    \/ get_analytics_summary

SpecAnalytics == InitAnalytics /\ [][NextAnalytics]_vars

RECURSIVE PointsNamed(_, _)
PointsNamed(ms, name) ==
    IF ms = <<>> THEN <<>>
    ELSE (IF Head(ms).metric_name = name THEN <<Head(ms)>> ELSE <<>>)
         \o PointsNamed(Tail(ms), name)

(* C9: the store holds, under each name ever tracked and under no other,   *)
(* exactly the points tracked under that name, in the order they were      *)
(* tracked, whatever retention_days is and however old the points are.     *)
C9_StoreIsTrackedPoints ==
    /\ DOMAIN metrics_store = {tracked[i].metric_name : i \in DOMAIN tracked}
    /\ \A n \in DOMAIN metrics_store : metrics_store[n] = PointsNamed(tracked, n)

(* under a retention of one day, a name holds a point older than that after *)
(* a newer one, and a trend analysis has sorted its copy the other way      *)
C9_Witness ==
    /\ retention_days = 1
    /\ analysis.op = "trend" /\ Len(analysis.values) = 2
    /\ \E n \in DOMAIN metrics_store :
           /\ Len(metrics_store[n]) = 2
           /\ metrics_store[n][1].timestamp > metrics_store[n][2].timestamp
           /\ metrics_store[n][2].timestamp < now - retention_days
           /\ analysis.values = <<metrics_store[n][2].value, metrics_store[n][1].value>>
           /\ metrics_store[n][1].value # metrics_store[n][2].value

NameMatches(p, th) == IsSubstring(th[1], p.metric_name)
AlertDue == {ij \in (DOMAIN tracked) \X (DOMAIN alert_thresholds) :
                /\ NameMatches(tracked[ij[1]], alert_thresholds[ij[2]])
                /\ tracked[ij[1]].value < alert_thresholds[ij[2]][2]}
IsAlertOf(a, p, th) ==
    /\ a.metric_name = p.metric_name /\ a.value = p.value /\ a.threshold = th[2]
    /\ a.severity = "warning" <=> 5 * p.value > 4 * th[2]
    /\ a.severity = "critical" <=> 5 * p.value <= 4 * th[2]

(* C10: the alert history holds one alert for each tracked point and       *)
(* configured threshold whose name is a substring of the point's name and  *)
(* whose value the point is strictly below, and no other alert; an alert   *)
(* is a warning when the value is above 0.8 times the threshold and        *)
(* critical otherwise.                                                      *)
C10_AlertIffBelowThreshold ==
    /\ Len(alert_history) = Cardinality(AlertDue)
    /\ \A k \in DOMAIN alert_history : \E ij \in AlertDue :
           IsAlertOf(alert_history[k], tracked[ij[1]], alert_thresholds[ij[2]])
    /\ \A ij \in AlertDue : \E k \in DOMAIN alert_history :
           IsAlertOf(alert_history[k], tracked[ij[1]], alert_thresholds[ij[2]])

(* a point at the threshold left no alert, a point at 0.8 times the        *)
(* threshold a critical one, a point between them a warning, and a point   *)
(* below a threshold whose name its name does not contain left none        *)
C10_Witness ==
    /\ \E i \in DOMAIN tracked, j \in DOMAIN alert_thresholds :
           /\ NameMatches(tracked[i], alert_thresholds[j])
           /\ tracked[i].value = alert_thresholds[j][2]
    /\ \E i \in DOMAIN tracked, j \in DOMAIN alert_thresholds :
           /\ ~NameMatches(tracked[i], alert_thresholds[j])
           /\ tracked[i].value < alert_thresholds[j][2]
    /\ \E k \in DOMAIN alert_history :
           /\ alert_history[k].severity = "critical"
           /\ 5 * alert_history[k].value = 4 * alert_history[k].threshold
    /\ \E k \in DOMAIN alert_history : alert_history[k].severity = "warning"

MatchCount(p) ==
    Cardinality({j \in DOMAIN alert_thresholds :
                    /\ NameMatches(p, alert_thresholds[j])
                    /\ p.value < alert_thresholds[j][2]})

(* the alerts are those of the points, point by point and in their order *)
RECURSIVE GroupedByPoint(_, _)
GroupedByPoint(alerts, points) ==
    IF points = <<>> THEN alerts = <<>>
    ELSE LET k == MatchCount(Head(points))
         IN /\ Len(alerts) >= k
            /\ \A i \in 1..k : /\ alerts[i].metric_name = Head(points).metric_name
                               /\ alerts[i].value = Head(points).value
            /\ GroupedByPoint(SubSeq(alerts, k + 1, Len(alerts)), Tail(points))

(* C11: every step keeps the alert history as a prefix of the new one; a   *)
(* step that tracks points appends, for each point in turn and before the  *)
(* alerts of the next point, one alert per configured threshold matching   *)
(* it, whether or not the same alert was raised before; any other step     *)
(* appends nothing.                                                         *)
C11_Step ==
    LET new == SubSeq(tracked', Len(tracked) + 1, Len(tracked'))
        added == SubSeq(alert_history', Len(alert_history) + 1, Len(alert_history'))
    IN /\ Len(alert_history') >= Len(alert_history)
       /\ SubSeq(alert_history', 1, Len(alert_history)) = alert_history
       /\ GroupedByPoint(added, new)

C11_AlertsSynchronousNoDedup == [][C11_Step]_vars

(* one point below two matching thresholds, tracked three times: six alerts *)
C11_Witness ==
    /\ Len(tracked) = 3 /\ tracked[1] = tracked[2] /\ tracked[2] = tracked[3]
    /\ MatchCount(tracked[1]) = 2
    /\ Len(alert_history) = 6

----------------------------------------------------------------------------
(* Performance reports and their cache *)

(* the points of every name, in the key order of the store, whose          *)
(* timestamp lies in the window: lines 167-171, 1143-1147                  *)
RECURSIVE PointsInWindow(_, _, _, _)
PointsInWindow(keys, store, start_date, end_date) ==
    IF keys = <<>> THEN <<>>
    ELSE LET inWindow(m) == start_date <= m.timestamp /\ m.timestamp <= end_date
         IN SelectSeq(store[Head(keys)], inWindow)
            \o PointsInWindow(Tail(keys), store, start_date, end_date)

(* _determine_time_frame, lines 1119-1134 *)
_determine_time_frame(start_date, end_date) ==
    LET days == end_date - start_date
    IN IF days <= 1 THEN "hourly"
       ELSE IF days <= 7 THEN "daily"
       ELSE IF days <= 31 THEN "weekly"
       ELSE IF days <= 365 THEN "monthly"
       ELSE "yearly"

(* f'perf_{int(datetime.now().timestamp())}', line 187 *)
ReportId(clock_seconds) == <<"perf", clock_seconds>>

(* self.reports_cache[report.report_id] = report, line 199 *)
CachePut(cache, report) ==
    [id \in DOMAIN cache \cup {report.report_id} |->
        IF id = report.report_id THEN report ELSE cache[id]]

(* generate_performance_report, lines 145-204; insights, recommendations   *)
(* and chart payloads are left out of the report                           *)
generate_performance_report(start_date, end_date) ==
    /\ Len(reports) < MaxReports
    /\ LET relevant_metrics ==
               PointsInWindow(store_keys, metrics_store, start_date, end_date)
           report == [report_id |-> ReportId(seconds),
                      report_type |-> "performance",
                      time_frame |-> _determine_time_frame(start_date, end_date),
                      start_date |-> start_date, end_date |-> end_date,
                      metrics |-> relevant_metrics]
       IN /\ reports_cache' = CachePut(reports_cache, report)
          /\ reports' = Append(reports, report)
          /\ analysis' = [op |-> "report", args |-> <<start_date, end_date>>,
                          error |-> FALSE, values |-> <<report>>]
    /\ UNCHANGED <<metrics_store, alert_history, alert_thresholds, retention_days,
                   tracked, now, store_keys, seconds>>
    /\ UNCHANGED enrichVars

(* the wall clock reaches the next second *)
Tick ==
    /\ seconds < MaxTicks
    /\ seconds' = seconds + 1
    /\ UNCHANGED <<metrics_store, alert_history, alert_thresholds, retention_days,
                   tracked, analysis, now, store_keys, reports_cache, reports>>
    /\ UNCHANGED enrichVars

ReportPoints == {MetricData(n, 9, ts) : n \in MetricNames, ts \in Timestamps}

InitReports ==
    /\ InitEnricher({<<>>})
    /\ metrics_store = EmptyStore /\ alert_history = <<>>
    /\ alert_thresholds \in {<<>>, <<<<<<"c">>, 10>>>>}
    /\ retention_days = DefaultRetentionDays
    /\ tracked = <<>> /\ analysis = NoAnalysis /\ now = Epoch
    /\ store_keys = <<>> /\ reports_cache = EmptyCache /\ reports = <<>>
    /\ seconds = 0

NextReports ==
    \/ \E m \in ReportPoints : Len(tracked) < 2 /\ track_metric(m)
    \/ \E start_date \in {0, Epoch - 1} :
           generate_performance_report(start_date, Epoch)
    \/ Tick
    \/ get_analytics_summary

SpecReports == InitReports /\ [][NextReports]_vars

(* C12: the reports generated so far have pairwise different ids, each is  *)
(* in the cache under its id, the cache holds as many reports as were      *)
(* generated, and the summary reports that number.                         *)
C12_ReportIdsUniqueAndCached ==
    /\ \A i, j \in DOMAIN reports :
           reports[i].report_id = reports[j].report_id => i = j
    /\ \A i \in DOMAIN reports :
           /\ reports[i].report_id \in DOMAIN reports_cache
           /\ reports_cache[reports[i].report_id] = reports[i]
    /\ Cardinality(DOMAIN reports_cache) = Len(reports)
    /\ analysis.op = "summary" => analysis.values[3] = Len(reports)

----------------------------------------------------------------------------
(* Trend analysis *)

TrackedInWindow(name, days) ==
    {i \in DOMAIN tracked :
        /\ tracked[i].metric_name = name
        /\ now - days <= tracked[i].timestamp /\ tracked[i].timestamp <= now}

(* C13: a call of perform_trend_analysis(metric_name, days) returns the    *)
(* error mapping exactly when no point tracked under that name has its     *)
(* timestamp in [now - days, now], be the name unknown or all its points   *)
(* outside; otherwise it returns the statistics of the points inside.      *)
C13_Step ==
    (analysis' # analysis /\ analysis'.op = "trend") =>
        LET inside == TrackedInWindow(analysis'.args[1], analysis'.args[2])
        IN /\ analysis'.error <=> inside = {}
           /\ ~analysis'.error => Len(analysis'.values) = Cardinality(inside)

C13_TrendErrorIffEmptyWindow == [][C13_Step]_vars

(* the error mapping for a name whose only points lie outside the window *)
C13_Witness ==
    /\ analysis.op = "trend" /\ analysis.error
    /\ analysis.args[1] \in DOMAIN metrics_store
    /\ Len(tracked) = MaxPoints
    /\ \A i \in DOMAIN tracked : tracked[i].metric_name = analysis.args[1]
    /\ TrackedInWindow(analysis.args[1], analysis.args[2]) = {}

----------------------------------------------------------------------------
(* Scoring functions.  Here a text is what the scores read off it: for the *)
(* analytics engine its length (0 for None and for ''), for the enrichment *)
(* engine's title and description scores a record of the counts they take. *)

MaxForbidden == 8   \* longest forbidden_words list of the brand guidelines

LengthScore(length, best, good, rest, lo, hi, glo, ghi) ==
    IF length = 0 THEN 0
    ELSE IF lo <= length /\ length <= hi THEN best
    ELSE IF glo <= length /\ length <= ghi THEN good
    ELSE rest

(* _calculate_content_quality_score: analytics_processor.py 681-719 *)
_calculate_content_quality_score(product) ==
    LET basic_fields == <<PriceTruthy(product.price), Truthy(product.category),
                          Truthy(product.brand)>>
        complete_fields == Count(basic_fields, TRUE)
    IN Min(Pts(1000),
           LengthScore(product.title, Pts(250), Pts(200), Pts(100), 30, 60, 20, 80)
           + LengthScore(product.description, Pts(350), Pts(250), Pts(150),
                         150, 500, 100, 1000)
           + Min(Pts(200), DictLen(product.attributes) * Pts(20))
           + Min(Pts(100), Len(product.images) * Pts(20))
           + (complete_fields * Pts(100)) \div Len(basic_fields))

(* _calculate_completeness_score: analytics_processor.py 722-745 *)
_calculate_completeness_score(product) ==
    LET req(b) == IF b THEN Pts(140) ELSE 0
        opt(b) == IF b THEN Pts(75) ELSE 0
    IN Min(Pts(1000),
           req(Truthy(product.id)) + req(product.title > 0)
           + req(product.description > 0) + req(PriceTruthy(product.price))
           + req(Truthy(product.category))
           + opt(Truthy(product.brand)) + opt(Truthy(product.sku))
           + opt(product.images # <<>>) + opt(product.attributes # EmptyDict))

SeoAttrs == {"meta_description", "keywords", "tags"}

(* _calculate_seo_score: analytics_processor.py 747-785 *)
_calculate_seo_score(product) ==
    LET seo_attr_count == Cardinality(DictKeys(product.attributes) \cap SeoAttrs)
    IN Min(Pts(1000),
           LengthScore(product.title, Pts(300), Pts(200), Pts(100), 30, 60, 20, 80)
           + LengthScore(product.description, Pts(300), Pts(200), Pts(100),
                         150, 300, 100, 500)
           + (IF Truthy(product.category) THEN Pts(200) ELSE 0)
           + (IF Truthy(product.brand) THEN Pts(100) ELSE 0)
           + (seo_attr_count * Pts(100)) \div Cardinality(SeoAttrs))

(* the record as the enrichment engine's completeness score reads it *)
Tagged(product) ==
    [product EXCEPT !.title = IF @ > 0 THEN "T" ELSE NoneV,
                    !.description = IF @ > 0 THEN "D" ELSE NoneV]

(* a scoring call and the value it returns *)
Scored(op, args, value) ==
    /\ analysis' = [op |-> op, args |-> args, error |-> FALSE, values |-> <<value>>]
    /\ UNCHANGED <<metrics_store, alert_history, alert_thresholds, retention_days,
                   tracked, now, store_keys>>
    /\ UNCHANGED reportVars
    /\ UNCHANGED enrichVars

(* a score is a function of its arguments alone: a behaviour makes one call *)
NoScoreYet == analysis = NoAnalysis

AttrKeys ==
    <<"meta_description", "keywords", "tags", "material", "color", "size",
      "weight", "origin", "warranty", "model", "finish">>
FirstAttrs(n) == {<<AttrKeys[i], "v">> : i \in 1..n}
AttributeDicts ==
    {FirstAttrs(n) : n \in {0, 1, 3, 5, Len(AttrKeys)}} \cup {{<<"material", "steel">>}}
ImageLists == {[i \in 1..n |-> "u"] : n \in {0, 1, 3, 6}}

ScoreRecord(i, t, d, p, c, b, s, a, im) ==
    [id |-> i, title |-> t, description |-> d, price |-> p, category |-> c,
     brand |-> b, sku |-> s, attributes |-> a, images |-> im]

(* records with a length in each band of the length scores *)
LengthRecords ==
    {ScoreRecord("p1", t, d, p, c, b, NoneV, a, im) :
        t \in {0, 10, 25, 45, 70, 90}, d \in {0, 50, 120, 200, 400, 700, 1200},
        p \in {NoPrice, 1999}, c \in {NoneV, "Electronics"}, b \in {NoneV, "Acme"},
        a \in AttributeDicts, im \in ImageLists}

(* records with every field absent, falsy or present *)
PresenceRecords ==
    {ScoreRecord(i, t, d, p, c, b, s, a, im) :
        i \in {NoneV, "p1"}, t \in {0, 45}, d \in {0, 200}, p \in {NoPrice, 0, 1999},
        c \in {NoneV, "Electronics"}, b \in {NoneV, "Acme"}, s \in {NoneV, "S1"},
        a \in AttributeDicts, im \in ImageLists}

(* _score_title_quality: data_enricher.py 1196-1240.  title: its length,   *)
(* its word count, the configured keywords it contains, whether it starts  *)
(* upper case and whether it has at most one '!' and one '?'               *)
_score_title_quality(title, seo_keywords) ==
    IF title.length = 0 THEN 0
    ELSE Min(Pts(1000),
             LengthScore(title.length, Pts(300), Pts(200), Pts(100), 30, 60, 20, 80)
             + (IF 4 <= title.words /\ title.words <= 8 THEN Pts(250)
                ELSE IF 3 <= title.words /\ title.words <= 10 THEN Pts(150)
                ELSE Pts(50))
             + (IF seo_keywords > 0 THEN Min(Pts(250), title.matches * Pts(80))
                ELSE Pts(150))
             + (IF title.upper THEN Pts(100) ELSE 0)
             + (IF title.calm THEN Pts(100) ELSE 0))

(* _score_description_quality: data_enricher.py 1242-1294.  description:   *)
(* its length, its sentences, its keyword density (per mille, 801-813),    *)
(* its readability (815-829, in 0..100) and the benefit words it contains  *)
_score_description_quality(description) ==
    IF description.length = 0 THEN 0
    ELSE Min(Pts(1000),
             LengthScore(description.length, Pts(250), Pts(200), Pts(100),
                         150, 300, 100, 500)
             + (IF 2 <= description.sentences /\ description.sentences <= 5
                THEN Pts(200) ELSE Pts(100))
             + (IF 10 <= description.density /\ description.density <= 30 THEN Pts(200)
                ELSE IF description.density > 0 THEN Pts(100) ELSE 0)
             + (IF description.readability >= 60 THEN Pts(200)
                ELSE IF description.readability >= 40 THEN Pts(150) ELSE Pts(50))
             + Min(Pts(150), description.benefits * Pts(30)))

(* faulty variant: the score is not floored at 0 *)
_check_brand_compliance_Unfloored(brand_guidelines, text) ==
    IF brand_guidelines = EmptyDict THEN Pts(1000)
    ELSE Pts(1000)
         - (IF DictHas(brand_guidelines, "required_brand_mention") /\ ~text.mention
            THEN Pts(200) ELSE 0)
         - (IF DictHas(brand_guidelines, "forbidden_words")
            THEN Min(text.forbidden, DictGet(brand_guidelines, "forbidden_words"))
                 * Pts(100)
            ELSE 0)
         - (IF DictHas(brand_guidelines, "tone")
               /\ DictGet(brand_guidelines, "tone") = "professional"
            THEN text.casual * Pts(50) ELSE 0)

(* _check_brand_compliance: data_enricher.py 1296-1329.  text: whether     *)
(* title and description mention the brand, how many of the forbidden     *)
(* words and how many of the four casual words they contain; the guideline *)
(* forbidden_words is the length of its list                               *)
_check_brand_compliance(brand_guidelines, text) ==
    IF brand_guidelines = EmptyDict THEN Pts(1000)
    ELSE LET score ==
             Pts(1000)
             - (IF DictHas(brand_guidelines, "required_brand_mention") /\ ~text.mention
                THEN Pts(200) ELSE 0)
             - (IF DictHas(brand_guidelines, "forbidden_words")
                THEN Min(text.forbidden, DictGet(brand_guidelines, "forbidden_words"))
                     * Pts(100)
                ELSE 0)
             - (IF DictHas(brand_guidelines, "tone")
                   /\ DictGet(brand_guidelines, "tone") = "professional"
                THEN text.casual * Pts(50) ELSE 0)
         IN IF score > 0 THEN score ELSE 0

(* _calculate_category_confidence: data_enricher.py 1128-1158.  matches:   *)
(* the keywords of the category's set that title and description contain   *)
_calculate_category_confidence(category, matches) ==
    IF ~Truthy(category) THEN 0
    ELSE IF category # "Electronics" THEN Pts(500)
    ELSE Min(Pts(1000), Pts(300) + matches * Pts(200))

(* quality_metrics after the passes: the scores the passes put there *)
MetricDicts ==
    {{<<k, v>> : k \in K} \cup other :
        K \in SUBSET {"title_quality", "readability_score", "amazon_a9_score"},
        v \in {0, Pts(1000)}, other \in {EmptyDict, {<<"title_length", 45>>}}}

TitleTexts ==
    [length : {0, 10, 25, 45, 90}, words : {1, 3, 5, 12}, matches : {0, 1, 4},
     upper : BOOLEAN, calm : BOOLEAN]

DescriptionTexts ==
    [length : {0, 50, 120, 200, 700}, sentences : {1, 3}, density : {0, 5, 20},
     readability : {0, 45, 100}, benefits : {0, 2, 7}]

BrandTexts == [mention : BOOLEAN, forbidden : 0..MaxForbidden, casual : {0, 2, 4}]

BrandGuidelines ==
    {EmptyDict} \cup
    {req \cup forb \cup tone :
        req \in {EmptyDict, {<<"required_brand_mention", "Acme">>}},
        forb \in {EmptyDict, {<<"forbidden_words", MaxForbidden>>}},
        tone \in {EmptyDict, {<<"tone", "professional">>}, {<<"tone", "casual">>}}}

ContentQualityScore ==
    NoScoreYet /\ \E product \in LengthRecords :
        Scored("_calculate_content_quality_score", <<product>>,
               _calculate_content_quality_score(product))

SeoScore ==
    NoScoreYet /\ \E product \in LengthRecords :
        Scored("_calculate_seo_score", <<product>>, _calculate_seo_score(product))

CompletenessScore ==
    NoScoreYet /\ \E product \in PresenceRecords :
        Scored("_calculate_completeness_score", <<product>>,
               _calculate_completeness_score(product))

ContentCompleteness ==
    NoScoreYet /\ \E product \in PresenceRecords :
        Scored("_calculate_content_completeness", <<product>>,
               CompletenessOfDeep(Tagged(product)))

TitleQuality ==
    NoScoreYet /\ \E title \in TitleTexts, seo_keywords \in {0, 4} :
        /\ title.matches <= seo_keywords
        /\ Scored("_score_title_quality", <<title, seo_keywords>>,
                  _score_title_quality(title, seo_keywords))

DescriptionQuality ==
    NoScoreYet /\ \E description \in DescriptionTexts :
        Scored("_score_description_quality", <<description>>,
               _score_description_quality(description))

BrandCompliance ==
    NoScoreYet /\ \E brand_guidelines \in BrandGuidelines, text \in BrandTexts :
        Scored("_check_brand_compliance", <<brand_guidelines, text>>,
               _check_brand_compliance(brand_guidelines, text))

CategoryConfidence ==
    NoScoreYet /\ \E category \in {NoneV, "other", "Electronics"}, matches \in 0..4 :
        Scored("_calculate_category_confidence", <<category, matches>>,
               _calculate_category_confidence(category, matches))

A9Score ==
    NoScoreYet /\ \E product \in PresenceRecords, ch \in Choices :
        /\ product.id = "p1" /\ product.sku = NoneV
        /\ Scored("_calculate_amazon_a9_score", <<product, ch.short>>,
                  _calculate_amazon_a9_score(
                      [Tagged(product) EXCEPT !.attributes = 1, !.images = 1],
                      <<product.attributes>>, <<product.images>>, ch))

EnrichmentScore ==
    NoScoreYet /\ \E t \in {"T", "seo_title"}, d \in {"D", "seo_description"},
                     c \in {"other", "Electronics"}, added \in {0, 3, Len(AttrKeys)},
                     metrics \in MetricDicts :
        LET original == Fields("T", "D", "other", 1, FALSE)
            enriched == Fields(t, d, c, 2, FALSE)
        IN Scored("_calculate_enrichment_score", <<enriched, added, metrics>>,
                  _calculate_enrichment_score(original, enriched, metrics,
                                              <<EmptyDict, FirstAttrs(added)>>))

InitScores == InitEnricher({<<>>}) /\ InitAnalyticsIdle

NextScores ==
    \/ ContentQualityScore
    \/ SeoScore
    \/ CompletenessScore
    \/ ContentCompleteness
    \/ TitleQuality
    \/ DescriptionQuality
    \/ BrandCompliance
    \/ CategoryConfidence
    \/ A9Score
    \/ EnrichmentScore

SpecScores == InitScores /\ [][NextScores]_vars

ScoreOps ==
    {"_calculate_content_quality_score", "_calculate_completeness_score",
     "_calculate_seo_score", "_calculate_content_completeness",
     "_score_title_quality", "_score_description_quality",
     "_check_brand_compliance", "_calculate_category_confidence",
     "_calculate_amazon_a9_score", "_calculate_enrichment_score"}

(* C14: every score a scoring function returns lies in [0, 100]: the       *)
(* content quality, completeness and SEO scores of the analytics engine,   *)
(* and the enrichment score, the title and description quality, the        *)
(* completeness, the brand compliance, the Amazon A9 score and the         *)
(* category confidence of the enrichment engine.                           *)
C14_ScoresWithinRange ==
    analysis.op \in ScoreOps =>
        /\ 0 <= analysis.values[1]
        /\ analysis.values[1] <= Pts(1000)

(* a brand compliance that the penalties would take below 0 *)
C14_Witness ==
    /\ analysis.op = "_check_brand_compliance"
    /\ analysis.args[2].forbidden = MaxForbidden /\ ~analysis.args[2].mention
    /\ DictHas(analysis.args[1], "forbidden_words")
    /\ DictHas(analysis.args[1], "required_brand_mention")
    /\ analysis.values[1] = 0

(* the points the fields of a record earn *)
RequiredPoints(product) ==
    Cardinality({f \in {"id", "category"} : Truthy(product[f])}
                \cup {f \in {"title", "description", "price"} : product[f] > 0})
    * Pts(140)
BrandSkuPoints(product) ==
    Cardinality({f \in {"brand", "sku"} : Truthy(product[f])}) * Pts(75)

(* C15 as stated: the completeness score is 14 points for each truthy      *)
(* required field plus 7.5 points for each present optional field (images  *)
(* and attributes when non-empty), in the analytics engine and in the      *)
(* enrichment engine alike.                                                *)
C15_CompletenessFlatInBothEngines ==
    analysis.op \in {"_calculate_completeness_score", "_calculate_content_completeness"} =>
        LET product == analysis.args[1]
        IN analysis.values[1] =
               RequiredPoints(product) + BrandSkuPoints(product)
               + (IF product.images # <<>> THEN Pts(75) ELSE 0)
               + (IF product.attributes # EmptyDict THEN Pts(75) ELSE 0)

(* C15: the completeness score is 14 points for each truthy required field *)
(* plus 7.5 points for each of brand and sku that is present, plus, in the *)
(* analytics engine, 7.5 points for non-empty images and 7.5 for non-empty *)
(* attributes, and in the enrichment engine 2.5 points per image and 1.5   *)
(* points per attribute, each up to 7.5; a record with the five required   *)
(* fields and no optional one scores 70 in both.                           *)
C15_CompletenessPerEngine ==
    /\ analysis.op = "_calculate_completeness_score" =>
        LET product == analysis.args[1]
        IN analysis.values[1] =
               RequiredPoints(product) + BrandSkuPoints(product)
               + (IF product.images # <<>> THEN Pts(75) ELSE 0)
               + (IF product.attributes # EmptyDict THEN Pts(75) ELSE 0)
    /\ analysis.op = "_calculate_content_completeness" =>
        LET product == analysis.args[1]
        IN /\ analysis.values[1] =
                  RequiredPoints(product) + BrandSkuPoints(product)
                  + Min(Pts(75), Len(product.images) * Pts(25))
                  + Min(Pts(75), DictLen(product.attributes) * Pts(15))
           /\ (RequiredPoints(product) = 5 * Pts(140) /\ BrandSkuPoints(product) = 0
               /\ product.images = <<>> /\ product.attributes = EmptyDict)
              => analysis.values[1] = Pts(700)

(* the enrichment engine's score of a record with the five required       *)
(* fields, one image and one attribute: 70 + 2.5 + 1.5                     *)
C15_Witness ==
    /\ analysis.op = "_calculate_content_completeness"
    /\ RequiredPoints(analysis.args[1]) = 5 * Pts(140)
    /\ BrandSkuPoints(analysis.args[1]) = 0
    /\ Len(analysis.args[1].images) = 1 /\ DictLen(analysis.args[1].attributes) = 1
    /\ analysis.values[1] = Pts(700) + Pts(25) + Pts(15)

----------------------------------------------------------------------------
(* Statistics.  Values are integers in a unit of the caller's choice; what *)
(* the code computes in floating point is computed here in fractions       *)
(* <<numerator, denominator>> in lowest terms with a positive denominator. *)

MaxGroup == 3       \* longest control or variant group drawn by value

Abs(x) == IF x < 0 THEN 0 - x ELSE x
RECURSIVE Gcd(_, _)
Gcd(a, b) == IF b = 0 THEN a ELSE Gcd(b, a % b)
Frac(n, d) ==
    LET g == Gcd(Abs(n), Abs(d))
        sign == IF d < 0 THEN 0 - 1 ELSE 1
    IN <<sign * (n \div g), sign * (d \div g)>>
FracAdd(x, y) == Frac(x[1] * y[2] + y[1] * x[2], x[2] * y[2])
FracSub(x, y) == Frac(x[1] * y[2] - y[1] * x[2], x[2] * y[2])
FracMul(x, y) == Frac(x[1] * y[1], x[2] * y[2])
FracLess(x, y) == x[1] * y[2] < y[1] * x[2]

RECURSIVE SumSeq(_)
SumSeq(s) == IF s = <<>> THEN 0 ELSE Head(s) + SumSeq(Tail(s))

(* statistics.mean *)
Mean(values) == Frac(SumSeq(values), Len(values))

(* the square of statistics.stdev: the squared deviations from the mean    *)
(* over n - 1                                                              *)
SampleVariance(values) ==
    LET n == Len(values)
        S == SumSeq(values)
        deviations == [i \in DOMAIN values |-> (n * values[i] - S) * (n * values[i] - S)]
    IN Frac(SumSeq(deviations), n * n * (n - 1))

(* faulty variant: the variant is recommended whenever the difference is   *)
(* significant, an improvement or not                                      *)
ABTestAnalysis_DeployOnSignificance(control_values, variant_values) ==
    IF control_values = <<>> \/ variant_values = <<>>
    THEN [error |-> TRUE]
    ELSE LET control_mean == Mean(control_values)
             variant_mean == Mean(variant_values)
             difference == FracSub(variant_mean, control_mean)
             control_var == IF Len(control_values) > 1
                            THEN SampleVariance(control_values) ELSE <<0, 1>>
             variant_var == IF Len(variant_values) > 1
                            THEN SampleVariance(variant_values) ELSE <<0, 1>>
             pooled_var == FracMul(FracAdd(control_var, variant_var), <<1, 2>>)
             t_squared ==
                 IF pooled_var[1] > 0
                 THEN FracMul(FracMul(difference, difference),
                              Frac(pooled_var[2] * Min(Len(control_values),
                                                       Len(variant_values)),
                                   pooled_var[1] * 2))
                 ELSE <<0, 1>>
             is_significant == FracLess(Frac(196 * 196, 100 * 100), t_squared)
         IN [error |-> FALSE, is_significant |-> is_significant,
             recommendation |-> IF is_significant THEN "Deploy variant"
                                ELSE "Keep control"]

(* generate_ab_test_analysis: analytics_processor.py 449-533.  t_stat is   *)
(* not negative, so t_stat > 1.96 is decided on its square                 *)
ABTestAnalysis(control_values, variant_values) ==
    IF control_values = <<>> \/ variant_values = <<>>
    THEN [error |-> TRUE]
    ELSE LET control_mean == Mean(control_values)
             variant_mean == Mean(variant_values)
             difference == FracSub(variant_mean, control_mean)
             improvement == IF control_mean[1] # 0
                            THEN FracMul(difference,
                                         Frac(100 * control_mean[2], control_mean[1]))
                            ELSE <<0, 1>>
             control_var == IF Len(control_values) > 1
                            THEN SampleVariance(control_values) ELSE <<0, 1>>
             variant_var == IF Len(variant_values) > 1
                            THEN SampleVariance(variant_values) ELSE <<0, 1>>
             pooled_var == FracMul(FracAdd(control_var, variant_var), <<1, 2>>)
             t_squared ==
                 IF pooled_var[1] > 0
                 THEN FracMul(FracMul(difference, difference),
                              Frac(pooled_var[2] * Min(Len(control_values),
                                                       Len(variant_values)),
                                   pooled_var[1] * 2))
                 ELSE <<0, 1>>
             is_significant == FracLess(Frac(196 * 196, 100 * 100), t_squared)
         IN [error |-> FALSE, is_significant |-> is_significant,
             recommendation |-> IF is_significant /\ improvement[1] > 0
                                THEN "Deploy variant" ELSE "Keep control"]

(* the values of the metrics of a group: line 466 *)
generate_ab_test_analysis(control_values, variant_values) ==
    /\ analysis' = [op |-> "ab_test", args |-> <<control_values, variant_values>>,
                    error |-> ABTestAnalysis(control_values, variant_values).error,
                    values |-> <<ABTestAnalysis(control_values, variant_values)>>]
    /\ UNCHANGED <<metrics_store, alert_history, alert_thresholds, retention_days,
                   tracked, now, store_keys>>
    /\ UNCHANGED reportVars
    /\ UNCHANGED enrichVars

(* 30 values of mean m and sample standard deviation 1, in halves *)
Thirty(m) ==
    [i \in 1..30 |->
        IF i <= 13 THEN 2 * m + 2 ELSE IF i <= 26 THEN 2 * m - 2
        ELSE IF i = 27 THEN 2 * m + 3 ELSE 2 * m - 1]

Groups == SeqsUpTo({0 - 4, 0, 10, 11, 14}, MaxGroup) \cup {Thirty(10), Thirty(14)}

ABTest ==
    NoScoreYet /\ \E control_values \in Groups, variant_values \in Groups :
        generate_ab_test_analysis(control_values, variant_values)

MaxSeries == 6      \* longest series drawn by value

(* faulty variant: a value is flagged beyond 1.5 standard deviations *)
DetectAnomalies_Sensitive(values) ==
    LET n == Len(values)
        S == SumSeq(values)
        dev(i) == n * values[i] - S
        squares == SumSeq([i \in DOMAIN values |-> dev(i) * dev(i)])
        flagged(i) == 4 * dev(i) * dev(i) * (n - 1) > 9 * squares
        anomaly(i) == [index |-> i - 1, value |-> values[i],
                       type |-> IF dev(i) > 0 THEN "high" ELSE "low"]
    IN IF n < 5 THEN <<>>
       ELSE SelectSeq([i \in DOMAIN values |-> IF flagged(i) THEN anomaly(i)
                                               ELSE [index |-> 0 - 1]],
                      LAMBDA a : a.index >= 0)

(* faulty variant: the deviations are measured against the population      *)
(* standard deviation                                                      *)
DetectAnomalies_Population(values) ==
    LET n == Len(values)
        S == SumSeq(values)
        dev(i) == n * values[i] - S
        squares == SumSeq([i \in DOMAIN values |-> dev(i) * dev(i)])
        flagged(i) == dev(i) * dev(i) * n > 4 * squares
        anomaly(i) == [index |-> i - 1, value |-> values[i],
                       type |-> IF dev(i) > 0 THEN "high" ELSE "low"]
    IN IF n < 5 THEN <<>>
       ELSE SelectSeq([i \in DOMAIN values |-> IF flagged(i) THEN anomaly(i)
                                               ELSE [index |-> 0 - 1]],
                      LAMBDA a : a.index >= 0)

(* _detect_anomalies: analytics_processor.py 928-950.  With n values of    *)
(* sum S, |value - mean| > 2 * stdev is decided on the squares, times n^2: *)
(* (n * value - S)^2 * (n - 1) > 4 * sum of the (n * value_i - S)^2        *)
DetectAnomalies(values) ==
    LET n == Len(values)
        S == SumSeq(values)
        dev(i) == n * values[i] - S
        squares == SumSeq([i \in DOMAIN values |-> dev(i) * dev(i)])
        flagged(i) == dev(i) * dev(i) * (n - 1) > 4 * squares
        anomaly(i) == [index |-> i - 1, value |-> values[i],
                       type |-> IF dev(i) > 0 THEN "high" ELSE "low"]
    IN IF n < 5 THEN <<>>
       ELSE SelectSeq([i \in DOMAIN values |-> IF flagged(i) THEN anomaly(i)
                                               ELSE [index |-> 0 - 1]],
                      LAMBDA a : a.index >= 0)

_detect_anomalies(values) ==
    /\ analysis' = [op |-> "_detect_anomalies", args |-> <<values>>,
                    error |-> FALSE, values |-> DetectAnomalies(values)]
    /\ UNCHANGED <<metrics_store, alert_history, alert_thresholds, retention_days,
                   tracked, now, store_keys>>
    /\ UNCHANGED reportVars
    /\ UNCHANGED enrichVars

(* n values, one high and one low among zeros: with n = 9 the two lie at  *)
(* 2 standard deviations from the mean, with n = 10 beyond                *)
Spread(n, high, low) ==
    [i \in 1..n |-> IF i = high THEN 10 ELSE IF i = low THEN 0 - 10 ELSE 0]

Series ==
    SeqsUpTo({0, 1, 10}, MaxSeries)
    \cup {Spread(n, high, low) : n \in {9, 10}, high \in 1..9, low \in 1..9}

Anomalies ==
    NoScoreYet /\ \E values \in Series : _detect_anomalies(values)

ForecastDays == 7

(* _generate_forecast: analytics_processor.py 952-990 *)
GenerateForecast(values, days) ==
    IF Len(values) < 3 THEN [error |-> TRUE]
    ELSE LET n == Len(values)
             x == [i \in 1..n |-> i - 1]
             sum_x == SumSeq(x)
             sum_y == SumSeq(values)
             sum_xy == SumSeq([i \in 1..n |-> x[i] * values[i]])
             sum_x2 == SumSeq([i \in 1..n |-> x[i] * x[i]])
             slope == IF n * sum_x2 - sum_x * sum_x # 0
                      THEN Frac(n * sum_xy - sum_x * sum_y, n * sum_x2 - sum_x * sum_x)
                      ELSE <<0, 1>>
             intercept == FracMul(FracSub(<<sum_y, 1>>, FracMul(slope, <<sum_x, 1>>)),
                                  <<1, n>>)
             forecast_value(i) ==
                 FracAdd(FracMul(slope, <<Len(values) + i, 1>>), intercept)
         IN [error |-> FALSE, forecast_days |-> days,
             forecast_values |->
                 [k \in 1..days |-> IF forecast_value(k - 1)[1] > 0
                                    THEN forecast_value(k - 1) ELSE <<0, 1>>],
             trend_slope |-> slope]

(* faulty variant: the forecast covers the days of the analysed window *)
ForecastOfTrend_WindowDays(values, days) == GenerateForecast(values, days)

(* the 'forecast' of perform_trend_analysis(metric_name, days), line 370:  *)
(* self._generate_forecast(values, days=7)                                 *)
ForecastOfTrend(values, days) == GenerateForecast(values, ForecastDays)

(* the series v_i = 2i + 1, i = 0..9 *)
Linear == [i \in 1..10 |-> 2 * (i - 1) + 1]

(* perform_trend_analysis on a window that holds these values (one at     *)
(* least: an empty window is an error, lines 342-345), as far as its      *)
(* forecast goes                                                          *)
TrendForecast ==
    /\ NoScoreYet
    /\ \E values \in (Series \cup {Linear}) \ {<<>>}, days \in {1, 7, 30} :
           analysis' = [op |-> "forecast", args |-> <<values, days>>,
                        error |-> ForecastOfTrend(values, days).error,
                        values |-> <<ForecastOfTrend(values, days)>>]
    /\ UNCHANGED <<metrics_store, alert_history, alert_thresholds, retention_days,
                   tracked, now, store_keys>>
    /\ UNCHANGED reportVars
    /\ UNCHANGED enrichVars

MaxCohortInput == 3   \* longest list of records handed to perform_cohort_analysis

(* getattr(product, cohort_field, 'Unknown'): the default is taken when    *)
(* ProductData has no attribute of that name                               *)
CohortValue(product, cohort_field) ==
    IF cohort_field \in DOMAIN product THEN product[cohort_field] ELSE "Unknown"

(* lines 391-394: the positions of the records of each cohort *)
CohortsOf(products, cohort_field) ==
    LET grouped == {i \in DOMAIN products :
                        Truthy(CohortValue(products[i], cohort_field))}
        names == {CohortValue(products[i], cohort_field) : i \in grouped}
    IN [name \in names |->
            {i \in grouped : CohortValue(products[i], cohort_field) = name}]

(* perform_cohort_analysis: analytics_processor.py 375-447; size and       *)
(* percentage of each cohort                                               *)
perform_cohort_analysis(products, cohort_field) ==
    /\ LET cohorts == CohortsOf(products, cohort_field)
       IN analysis' =
              [op |-> "cohort", args |-> <<products, cohort_field>>, error |-> FALSE,
               values |-> <<[cohorts |-> cohorts,
                             total_cohorts |-> Cardinality(DOMAIN cohorts),
                             total_products |-> Len(products),
                             size |-> [name \in DOMAIN cohorts |->
                                          Cardinality(cohorts[name])],
                             percentage |->
                                 [name \in DOMAIN cohorts |->
                                     Frac(100 * Cardinality(cohorts[name]),
                                          Len(products))]]>>]
    /\ UNCHANGED <<metrics_store, alert_history, alert_thresholds, retention_days,
                   tracked, now, store_keys>>
    /\ UNCHANGED reportVars
    /\ UNCHANGED enrichVars

CohortRecords ==
    {ScoreRecord("p1", 45, 200, 1999, c, b, NoneV, EmptyDict, <<>>) :
        c \in {NoneV, "Electronics", "Home"}, b \in {NoneV, "Acme"}}

CohortAnalysis ==
    NoScoreYet /\ \E products \in SeqsUpTo(CohortRecords, MaxCohortInput),
                     cohort_field \in {"category", "brand", "color"} :
        perform_cohort_analysis(products, cohort_field)

InitStatistics == InitEnricher({<<>>}) /\ InitAnalyticsIdle

NextStatistics ==
    \/ ABTest
    \/ Anomalies
    \/ TrendForecast
    \/ CohortAnalysis

SpecStatistics == InitStatistics /\ [][NextStatistics]_vars

(* n(n-1) times the sample variance, by the sums of values and of squares *)
SquaresOf(values) == [i \in DOMAIN values |-> values[i] * values[i]]
VarianceBySums(values) ==
    LET n == Len(values)
    IN IF n > 1
       THEN Frac(n * SumSeq(SquaresOf(values)) - SumSeq(values) * SumSeq(values),
                 n * (n - 1))
       ELSE <<0, 1>>

(* C16: for non-empty groups is_significant holds iff                      *)
(* |variant_mean - control_mean| / (pooled_std * sqrt(2 / min(n_control,   *)
(* n_variant))) > 1.96, the statistic being 0 when pooled_std is 0, and    *)
(* the recommendation is "Deploy variant" iff is_significant and the       *)
(* improvement (variant_mean - control_mean) / control_mean is positive,   *)
(* else "Keep control"; means 10 and 14 with standard deviation 1 and 30   *)
(* values each give is_significant and "Deploy variant"; with an empty     *)
(* group the result is the error mapping.                                  *)
C16_ABTestDecision ==
    analysis.op = "ab_test" =>
        LET c == analysis.args[1]
            v == analysis.args[2]
            D == SumSeq(v) * Len(c) - SumSeq(c) * Len(v)
            difference == Frac(D, Len(c) * Len(v))
            twice_pooled == FracAdd(VarianceBySums(c), VarianceBySums(v))
            significant ==
                /\ twice_pooled[1] > 0
                /\ FracLess(FracMul(Frac(196 * 196, 100 * 100), twice_pooled),
                            FracMul(FracMul(difference, difference),
                                    <<Min(Len(c), Len(v)), 1>>))
            improved == (D > 0 /\ SumSeq(c) > 0) \/ (D < 0 /\ SumSeq(c) < 0)
        IN /\ analysis.error <=> (c = <<>> \/ v = <<>>)
           /\ ~analysis.error =>
               /\ analysis.values[1].is_significant <=> significant
               /\ analysis.values[1].recommendation =
                      IF significant /\ improved THEN "Deploy variant"
                      ELSE "Keep control"
           /\ (c = Thirty(10) /\ v = Thirty(14)) =>
               /\ analysis.values[1].is_significant
               /\ analysis.values[1].recommendation = "Deploy variant"

(* the example: control mean 10, variant mean 14, standard deviation 1, 30 *)
(* values each                                                             *)
C16_Witness ==
    /\ analysis.op = "ab_test"
    /\ analysis.args = <<Thirty(10), Thirty(14)>>
    /\ Mean(analysis.args[1]) = <<20, 1>> /\ Mean(analysis.args[2]) = <<28, 1>>
    /\ SampleVariance(analysis.args[1]) = <<4, 1>>
    /\ SampleVariance(analysis.args[2]) = <<4, 1>>
    /\ analysis.values[1].is_significant
    /\ analysis.values[1].recommendation = "Deploy variant"

(* |values[i] - mean| > 2 * stdev, on the mean and the sample variance *)
Beyond(values, i) ==
    LET d == FracSub(<<values[i], 1>>, Mean(values))
    IN FracLess(FracMul(<<4, 1>>, SampleVariance(values)), FracMul(d, d))

(* C17: the anomalies of a series of at least 5 values are the indices     *)
(* whose value lies farther than 2 sample standard deviations from the     *)
(* mean, each once, in increasing order; a series of fewer than 5 values   *)
(* has none; in a series of 5 values of which exactly one lies beyond,     *)
(* that one is the only anomaly.                                           *)
C17_AnomaliesBeyondTwoStdev ==
    analysis.op = "_detect_anomalies" =>
        LET values == analysis.args[1]
            anomalies == analysis.values
            beyond == {i \in DOMAIN values : Beyond(values, i)}
        IN /\ Len(values) < 5 => anomalies = <<>>
           /\ Len(values) >= 5 =>
               /\ {anomalies[k].index + 1 : k \in DOMAIN anomalies} = beyond
               /\ \A k \in DOMAIN anomalies :
                      /\ anomalies[k].value = values[anomalies[k].index + 1]
                      /\ k > 1 => anomalies[k - 1].index < anomalies[k].index
           /\ (Len(values) = 5 /\ Cardinality(beyond) = 1) =>
               /\ Len(anomalies) = 1
               /\ anomalies[1].index + 1 \in beyond

(* two anomalies in a series of ten, the later index last *)
C17_Witness ==
    /\ analysis.op = "_detect_anomalies"
    /\ Len(analysis.args[1]) = 10
    /\ Len(analysis.values) = 2
    /\ analysis.values[1].index = 2 /\ analysis.values[1].type = "low"
    /\ analysis.values[2].index = 7 /\ analysis.values[2].type = "high"
    /\ Beyond(analysis.args[1], 3) /\ Beyond(analysis.args[1], 8)

(* the least-squares line through the points (i, values[i+1]): its slope   *)
(* by the deviations from the means, its intercept from the means          *)
LeastSquares(values) ==
    LET n == Len(values)
        mean_x == Frac(n - 1, 2)
        mean_y == Mean(values)
        sxy == Frac(SumSeq([i \in 1..n |-> (2 * (i - 1) - (n - 1))
                                           * (n * values[i] - SumSeq(values))]),
                    2 * n)
        sxx == Frac(SumSeq([i \in 1..n |-> (2 * (i - 1) - (n - 1))
                                           * (2 * (i - 1) - (n - 1))]), 4)
        slope == FracMul(sxy, <<sxx[2], sxx[1]>>)
    IN [slope |-> slope, intercept |-> FracSub(mean_y, FracMul(slope, mean_x))]

(* the forecast of a trend analysis is the least-squares projection over   *)
(* `horizon` days, an error payload below 3 values                         *)
ForecastProjects(horizon) ==
    LET values == analysis.args[1]
        forecast == analysis.values[1]
        n == Len(values)
        line == LeastSquares(values)
        projected(k) == FracAdd(FracMul(line.slope, <<n + k, 1>>), line.intercept)
    IN /\ analysis.error <=> n < 3
       /\ ~analysis.error =>
           /\ Len(forecast.forecast_values) = horizon
           /\ forecast.trend_slope = line.slope
           /\ \A k \in 0..(horizon - 1) :
                  k + 1 \in DOMAIN forecast.forecast_values =>
                      forecast.forecast_values[k + 1] =
                          IF projected(k)[1] > 0 THEN projected(k) ELSE <<0, 1>>
       /\ values = Linear =>
           /\ line.slope = <<2, 1>> /\ line.intercept = <<1, 1>>
           /\ forecast.trend_slope = <<2, 1>>
           /\ forecast.forecast_values[1] = <<21, 1>>

(* C18 as stated: the forecast of perform_trend_analysis(metric_name,      *)
(* window_days) over at least 3 points is the least-squares fit of value   *)
(* against index, holds exactly window_days projected values, the k-th     *)
(* max(0, slope * (n + k) + intercept), and is an error payload below 3    *)
(* points.                                                                 *)
C18_ForecastCoversWindowDays ==
    analysis.op = "forecast" => ForecastProjects(analysis.args[2])

(* C18: the forecast of perform_trend_analysis(metric_name, window_days)   *)
(* over at least 3 points is the least-squares fit of value against index  *)
(* (slope 2, intercept 1 for v_i = 2i + 1, i = 0..9), holds exactly 7      *)
(* projected values whatever window_days is, the k-th being                *)
(* max(0, slope * (n + k) + intercept) for k = 0..6, and is an error       *)
(* payload below 3 points.                                                 *)
C18_ForecastCoversSevenDays ==
    analysis.op = "forecast" => ForecastProjects(ForecastDays)

(* the linear series analysed over a window of 30 days: 7 values, 21..33 *)
C18_Witness ==
    /\ analysis.op = "forecast"
    /\ analysis.args = <<Linear, 30>>
    /\ ~analysis.error
    /\ analysis.values[1].trend_slope = <<2, 1>>
    /\ analysis.values[1].forecast_values =
           [k \in 1..ForecastDays |-> <<21 + 2 * (k - 1), 1>>]

RECURSIVE FracSum(_, _)
FracSum(f, names) ==
    IF names = {} THEN <<0, 1>>
    ELSE LET n == CHOOSE x \in names : TRUE
         IN FracAdd(f[n], FracSum(f, names \ {n}))

(* C19: every record handed to perform_cohort_analysis is in exactly one   *)
(* cohort, the one named by the string value of its field, or "Unknown"    *)
(* when the record has no value for the field; so the sizes of the cohorts *)
(* sum to total_products and, for a non-empty input, their percentages to  *)
(* 100.                                                                    *)
C19_EveryRecordInOneCohort ==
    analysis.op = "cohort" =>
        LET products == analysis.args[1]
            cohort_field == analysis.args[2]
            result == analysis.values[1]
            key(i) == IF cohort_field \in DOMAIN products[i]
                         /\ Truthy(products[i][cohort_field])
                      THEN products[i][cohort_field] ELSE "Unknown"
        IN /\ \A i \in DOMAIN products :
                  /\ Cardinality({name \in DOMAIN result.cohorts :
                                     i \in result.cohorts[name]}) = 1
                  /\ key(i) \in DOMAIN result.cohorts
                  /\ i \in result.cohorts[key(i)]
           /\ result.total_products = Len(products)
           /\ FracSum([name \in DOMAIN result.size |-> <<result.size[name], 1>>],
                      DOMAIN result.size) = <<result.total_products, 1>>
           /\ products # <<>> =>
                  FracSum(result.percentage, DOMAIN result.percentage) = <<100, 1>>

----------------------------------------------------------------------------
(* The dashboard.  Under SpecDashboard the clock and the timestamps are in *)
(* hours.                                                                  *)

HoursPerDay == 24
RecentHours == 24
ActivityLimit == 10

(* create_dashboard_data, lines 646-653: the days the time frame looks back *)
LookbackDays(time_frame) ==
    IF time_frame = "daily" THEN 1
    ELSE IF time_frame = "weekly" THEN 7
    ELSE IF time_frame = "monthly" THEN 30
    ELSE 7

RECURSIVE SeqMax(_)
SeqMax(s) ==
    IF Len(s) = 1 THEN s[1]
    ELSE LET m == SeqMax(Tail(s)) IN IF s[1] >= m THEN s[1] ELSE m
RECURSIVE SeqMin(_)
SeqMin(s) ==
    IF Len(s) = 1 THEN s[1]
    ELSE LET m == SeqMin(Tail(s)) IN IF s[1] <= m THEN s[1] ELSE m

(* _calculate_dashboard_kpis: analytics_processor.py 1136-1161 *)
_calculate_dashboard_kpis(keys, store, start_date, end_date) ==
    LET period_metrics == PointsInWindow(keys, store, start_date, end_date)
        values == ValuesOf(period_metrics)
    IN IF period_metrics # <<>>
       THEN [total_metrics |-> Len(period_metrics), average_value |-> Mean(values),
             max_value |-> SeqMax(values), min_value |-> SeqMin(values)]
       ELSE [total_metrics |-> 0, average_value |-> <<0, 1>>,
             max_value |-> 0, min_value |-> 0]

(* activity.sort(key=lambda x: x['timestamp'], reverse=True), line 1204:   *)
(* entries of equal timestamp keep their order                             *)
RECURSIVE InsertDescending(_, _)
InsertDescending(sorted, entry) ==
    IF sorted = <<>> THEN <<entry>>
    ELSE IF Head(sorted).timestamp >= entry.timestamp
         THEN <<Head(sorted)>> \o InsertDescending(Tail(sorted), entry)
         ELSE <<entry>> \o sorted
RECURSIVE SortDescending(_)
SortDescending(activity) ==
    IF activity = <<>> THEN <<>>
    ELSE InsertDescending(SortDescending(SubSeq(activity, 1, Len(activity) - 1)),
                          activity[Len(activity)])

(* _get_recent_activity, lines 1190-1201: one entry per name of the store  *)
(* with a recent point, stamped with the last of its recent points         *)
RECURSIVE RecentEntries(_, _, _)
RecentEntries(keys, store, cutoff_time) ==
    IF keys = <<>> THEN <<>>
    ELSE LET recent(m) == m.timestamp > cutoff_time
             recent_metrics == SelectSeq(store[Head(keys)], recent)
         IN (IF recent_metrics # <<>>
             THEN <<[metric_name |-> Head(keys), count |-> Len(recent_metrics),
                     latest_value |-> recent_metrics[Len(recent_metrics)].value,
                     timestamp |-> recent_metrics[Len(recent_metrics)].timestamp]>>
             ELSE <<>>)
            \o RecentEntries(Tail(keys), store, cutoff_time)

(* _get_recent_activity: analytics_processor.py 1185-1205 *)
_get_recent_activity(keys, store, clock, hours) ==
    LET activity == SortDescending(RecentEntries(keys, store, clock - hours))
    IN SubSeq(activity, 1, Min(ActivityLimit, Len(activity)))

(* _get_recent_alerts: analytics_processor.py 1178-1183 *)
_get_recent_alerts(alerts, clock, hours) ==
    SelectSeq(alerts, LAMBDA alert : alert.timestamp > clock - hours)

(* create_dashboard_data: analytics_processor.py 631-679; the charts, a    *)
(* regrouping of the points of the window, are left out of the result      *)
create_dashboard_data(time_frame) ==
    /\ LET end_date == now
           start_date == end_date - LookbackDays(time_frame) * HoursPerDay
       IN analysis' =
              [op |-> "dashboard", args |-> <<time_frame, start_date, end_date>>,
               error |-> FALSE,
               values |-> <<[kpis |-> _calculate_dashboard_kpis(
                                          store_keys, metrics_store, start_date, end_date),
                             alerts |-> _get_recent_alerts(alert_history, now,
                                                           RecentHours),
                             recent_activity |->
                                 _get_recent_activity(store_keys, metrics_store, now,
                                                      RecentHours)]>>]
    /\ UNCHANGED <<metrics_store, alert_history, alert_thresholds, retention_days,
                   tracked, now, store_keys>>
    /\ UNCHANGED reportVars
    /\ UNCHANGED enrichVars

(* the clock of SpecDashboard and the ages of the points it tracks, hours *)
DashboardNow == 40 * HoursPerDay
Ages == {2, 10, 20, 3 * HoursPerDay, 10 * HoursPerDay, 35 * HoursPerDay}
DashboardPoints ==
    {MetricData(n, v, DashboardNow - age) : n \in MetricNames, v \in {8, 10}, age \in Ages}

InitDashboard ==
    /\ InitEnricher({<<>>})
    /\ metrics_store = EmptyStore /\ alert_history = <<>>
    /\ alert_thresholds = <<>>
    /\ retention_days = DefaultRetentionDays
    /\ tracked = <<>> /\ analysis = NoAnalysis /\ now = DashboardNow
    /\ store_keys = <<>> /\ reports_cache = EmptyCache /\ reports = <<>>
    /\ seconds = 0

NextDashboard ==
    \/ \E m \in DashboardPoints : analysis = NoAnalysis /\ track_metric(m)
    \/ \E time_frame \in {"hourly", "daily", "weekly", "monthly"} :
           analysis = NoAnalysis /\ create_dashboard_data(time_frame)

SpecDashboard == InitDashboard /\ [][NextDashboard]_vars

(* the points tracked so far that a predicate on timestamps selects *)
TrackedWhere(P(_)) == SelectSeq(tracked, LAMBDA m : P(m.timestamp))
NamesOf(points) == {points[i].metric_name : i \in DOMAIN points}
MostRecent(name) ==
    LET points == PointsNamed(tracked, name)
    IN SeqMax([i \in DOMAIN points |-> points[i].timestamp])

(* one entry for each metric name with a point in the last 24 hours, none  *)
(* for another, at most 10 in all                                          *)
DashboardEntries ==
    LET activity == analysis.values[1].recent_activity
        recent == NamesOf(TrackedWhere(LAMBDA ts : ts > now - RecentHours))
    IN /\ Len(activity) <= ActivityLimit
       /\ NamesOf(activity) \subseteq recent
       /\ \A k, l \in DOMAIN activity :
              activity[k].metric_name = activity[l].metric_name => k = l
       /\ Cardinality(recent) <= ActivityLimit => NamesOf(activity) = recent

(* the entries are in descending order of their metrics' most recent       *)
(* timestamps                                                              *)
DashboardSorted ==
    LET activity == analysis.values[1].recent_activity
    IN \A k \in DOMAIN activity :
           k > 1 => MostRecent(activity[k - 1].metric_name)
                        >= MostRecent(activity[k].metric_name)

(* the KPIs are those of the points of the time frame's window, zeros when *)
(* it holds none                                                           *)
DashboardKpis ==
    LET time_frame == analysis.args[1]
        days == CASE time_frame = "daily" -> 1 [] time_frame = "weekly" -> 7
                  [] time_frame = "monthly" -> 30 [] OTHER -> 7
        window == TrackedWhere(LAMBDA ts : now - days * HoursPerDay <= ts /\ ts <= now)
        kpis == analysis.values[1].kpis
    IN /\ kpis.total_metrics = Len(window)
       /\ window = <<>> => /\ kpis.average_value = <<0, 1>>
                           /\ kpis.max_value = 0 /\ kpis.min_value = 0
       /\ window # <<>> =>
              /\ kpis.average_value = Frac(SumSeq(ValuesOf(window)), Len(window))
              /\ \A i \in DOMAIN window : /\ kpis.min_value <= window[i].value
                                          /\ window[i].value <= kpis.max_value
              /\ \E i, j \in DOMAIN window : /\ kpis.min_value = window[i].value
                                             /\ kpis.max_value = window[j].value

(* C20: create_dashboard_data returns a recent_activity of at most 10      *)
(* entries, one for each metric name with a point in the last 24 hours and *)
(* none for another, in descending order of the metrics' most recent       *)
(* timestamps, and KPIs computed over 1 day for daily, 7 for weekly, 30    *)
(* for monthly and 7 for another time frame, zeros when no point is in the *)
(* window.                                                                 *)
C20_DashboardActivityAndKpis ==
    analysis.op = "dashboard" =>
        DashboardEntries /\ DashboardSorted /\ DashboardKpis

----------------------------------------------------------------------------
(* Zero-length inputs and zero denominators.  A call either returns a      *)
(* value or raises: `raised` names the exception ("" when there is none).  *)

Returns(value) == [raised |-> "", value |-> value]
Raises(exception) == [raised |-> exception, value |-> <<0, 0>>]

(* x / y on fractions: ZeroDivisionError when y is 0 *)
Division(x, y) ==
    IF y[1] = 0 THEN Raises("ZeroDivisionError")
    ELSE Returns(Frac(x[1] * y[2], x[2] * y[1]))

(* statistics.mean: StatisticsError on no data *)
statistics_mean(values) ==
    IF values = <<>> THEN Raises("StatisticsError") ELSE Returns(Mean(values))

(* _calculate_trend_direction: analytics_processor.py 847-868 *)
_calculate_trend_direction(values) ==
    LET n == Len(values)
        first_avg == statistics_mean(SubSeq(values, 1, n \div 2))
        second_avg == statistics_mean(SubSeq(values, n \div 2 + 1, n))
        change_percent ==
            IF first_avg.value[1] # 0
            THEN Division(FracMul(FracSub(second_avg.value, first_avg.value),
                                  <<100, 1>>), first_avg.value)
            ELSE Returns(<<0, 1>>)
    IN IF n < 2 THEN Returns("stable")
       ELSE IF first_avg.raised # "" THEN first_avg
       ELSE IF second_avg.raised # "" THEN second_avg
       ELSE IF change_percent.raised # "" THEN change_percent
       ELSE IF FracLess(<<5, 1>>, change_percent.value) THEN Returns("increasing")
       ELSE IF FracLess(change_percent.value, <<0 - 5, 1>>) THEN Returns("decreasing")
       ELSE Returns("stable")

(* the variance over n of line 876, times 100 squared *)
PopulationVariance(values) ==
    LET n == Len(values)
        S == SumSeq(values)
        deviations == [i \in DOMAIN values |-> (n * values[i] - S) * (n * values[i] - S)]
    IN Frac(100 * 100 * SumSeq(deviations), n * n * n)

(* _calculate_volatility: analytics_processor.py 870-880.  The value is    *)
(* (std_dev / mean) * 100; what is kept of it is its square, with its sign *)
_calculate_volatility(values) ==
    LET mean_val == statistics_mean(values)
        ratio == Division(PopulationVariance(values),
                          FracMul(mean_val.value, mean_val.value))
    IN IF Len(values) < 2 THEN Returns(<<0, 1>>)
       ELSE IF mean_val.raised # "" THEN mean_val
       ELSE IF mean_val.value[1] # 0
            THEN IF ratio.raised # "" THEN ratio
                 ELSE Returns(IF mean_val.value[1] < 0
                              THEN FracSub(<<0, 1>>, ratio.value) ELSE ratio.value)
            ELSE Returns(<<0, 1>>)

(* faulty variant: the first value is divided by whatever it is *)
_calculate_growth_rate_Unguarded(values) ==
    IF Len(values) < 2 THEN Returns(<<0, 1>>)
    ELSE Division(<<100 * (values[Len(values)] - values[1]), 1>>, <<values[1], 1>>)

(* _calculate_growth_rate: analytics_processor.py 882-887 *)
_calculate_growth_rate(values) ==
    IF Len(values) < 2 \/ values[1] = 0 THEN Returns(<<0, 1>>)
    ELSE Division(<<100 * (values[Len(values)] - values[1]), 1>>, <<values[1], 1>>)

DaysPerWeek == 7

(* metric.timestamp.strftime('%A'), line 898, of a timestamp in days *)
DayOfWeek(timestamp) == timestamp % DaysPerWeek

RECURSIVE FracTotal(_)
FracTotal(fracs) ==
    IF fracs = <<>> THEN <<0, 1>> ELSE FracAdd(Head(fracs), FracTotal(Tail(fracs)))
FracAbs(x) == <<Abs(x[1]), x[2]>>

(* the keys of day_groups in the order of their first metric (a dict) *)
RECURSIVE DaysOf(_)
DaysOf(metrics) ==
    IF metrics = <<>> THEN <<>>
    ELSE LET rest == DaysOf(SubSeq(metrics, 1, Len(metrics) - 1))
             day == DayOfWeek(metrics[Len(metrics)].timestamp)
         IN IF \E i \in DOMAIN rest : rest[i] = day THEN rest ELSE Append(rest, day)

(* max(day_averages, key=...) and min(...): the first of the extremes *)
FirstWhere(days, Best(_)) == days[CHOOSE i \in DOMAIN days :
                                      Best(i) /\ \A j \in 1..(i - 1) : ~Best(j)]

(* _detect_seasonal_patterns: analytics_processor.py 889-926 *)
_detect_seasonal_patterns(metrics) ==
    LET days == DaysOf(metrics)
        group(day) == ValuesOf(SelectSeq(metrics,
                                         LAMBDA m : DayOfWeek(m.timestamp) = day))
        day_averages == [i \in DOMAIN days |-> statistics_mean(group(days[i]))]
        avg_values == [i \in DOMAIN days |-> day_averages[i].value]
        overall_avg == Division(FracTotal(avg_values), <<Len(avg_values), 1>>)
        deviation(i) == FracAbs(FracSub(avg_values[i], overall_avg.value))
        max_deviation ==
            deviation(CHOOSE i \in DOMAIN days :
                          \A j \in DOMAIN days : ~FracLess(deviation(i), deviation(j)))
        ratio == Division(max_deviation, overall_avg.value)
        highest(i) == \A j \in DOMAIN days : ~FracLess(avg_values[i], avg_values[j])
        lowest(i) == \A j \in DOMAIN days : ~FracLess(avg_values[j], avg_values[i])
        found(is_seasonal) ==
            Returns([detected |-> is_seasonal, day_averages |-> avg_values,
                     peak_day |-> FirstWhere(days, highest),
                     low_day |-> FirstWhere(days, lowest)])
    IN IF Len(metrics) < DaysPerWeek THEN Returns([detected |-> FALSE])
       ELSE IF \E i \in DOMAIN days : day_averages[i].raised # ""
            THEN Raises("StatisticsError")
       ELSE IF Len(days) < 3 THEN Returns([detected |-> FALSE])
       ELSE IF overall_avg.raised # "" THEN overall_avg
       ELSE IF overall_avg.value[1] # 0
            THEN IF ratio.raised # "" THEN ratio
                 ELSE found(FracLess(<<1, 5>>, ratio.value))
            ELSE found(FALSE)

(* analyze_content_performance: analytics_processor.py 206-278, as far as  *)
(* the counting, the early return on no products and the quality average   *)
(* go                                                                      *)
analyze_content_performance(products) ==
    LET quality_scores ==
            [i \in DOMAIN products |-> _calculate_content_quality_score(products[i])]
        average == statistics_mean(quality_scores)
    IN IF products = <<>>
       THEN Returns([total_products |-> Len(products), content_quality_scores |-> {}])
       ELSE IF average.raised # "" THEN average
       ELSE Returns([total_products |-> Len(products),
                     content_quality_scores |->
                         {<<"average", average.value>>,
                          <<"min", SeqMin(quality_scores)>>,
                          <<"max", SeqMax(quality_scores)>>}])

MaxEdge == 4        \* longest degenerate series drawn by value

(* empty, single-point, all-zero, zero-mean and zero-first-value series *)
EdgeSeries == SeqsUpTo({0 - 1, 0, 1, 2}, MaxEdge)
Weeks == [1..7 -> {0 - 1, 0, 1}]
ZeroRuns == {[i \in 1..n |-> 0] : n \in 5..8}

(* one metric every `stride` days *)
Every(stride, values) ==
    [i \in DOMAIN values |-> MetricData(<<"c", "r">>, values[i], (i - 1) * stride)]

TrendDirection ==
    NoScoreYet /\ \E values \in EdgeSeries :
        Scored("_calculate_trend_direction", <<values>>,
               _calculate_trend_direction(values))

Volatility ==
    NoScoreYet /\ \E values \in EdgeSeries :
        Scored("_calculate_volatility", <<values>>, _calculate_volatility(values))

GrowthRate ==
    NoScoreYet /\ \E values \in EdgeSeries :
        Scored("_calculate_growth_rate", <<values>>, _calculate_growth_rate(values))

Seasonality ==
    NoScoreYet /\ \E values \in EdgeSeries \cup Weeks, stride \in {0, 1, 3} :
        Scored("_detect_seasonal_patterns", <<Every(stride, values)>>,
               _detect_seasonal_patterns(Every(stride, values)))

ContentPerformance ==
    NoScoreYet /\ \E products \in SeqsUpTo({p \in PresenceRecords :
                                                p.attributes = EmptyDict
                                                /\ p.images = <<>>}, 2) :
        Scored("analyze_content_performance", <<products>>,
               analyze_content_performance(products))

EdgeAnomalies ==
    NoScoreYet /\ \E values \in EdgeSeries \cup Weeks \cup ZeroRuns :
        _detect_anomalies(values)

EdgeForecast ==
    NoScoreYet /\ \E values \in EdgeSeries \cup ZeroRuns :
        Scored("_generate_forecast", <<values, ForecastDays>>,
               GenerateForecast(values, ForecastDays))

EdgeABTest ==
    NoScoreYet /\ \E control_values \in SeqsUpTo({0 - 1, 0, 1}, 3),
                     variant_values \in SeqsUpTo({0 - 1, 0, 1}, 3) :
        generate_ab_test_analysis(control_values, variant_values)

(* the KPI summary over a store that holds these values under one name *)
EdgeKpis ==
    NoScoreYet /\ \E values \in EdgeSeries, tracked_names \in {<<>>, <<<<"c", "r">>>>} :
        Scored("_calculate_dashboard_kpis", <<tracked_names, values>>,
               _calculate_dashboard_kpis(
                   tracked_names,
                   [n \in Range(tracked_names) |-> Every(0, values)], 0, 0))

InitEdge == InitEnricher({<<>>}) /\ InitAnalyticsIdle

NextEdge ==
    \/ TrendDirection \/ Volatility \/ GrowthRate \/ Seasonality
    \/ ContentPerformance \/ EdgeAnomalies \/ EdgeForecast \/ EdgeABTest
    \/ EdgeKpis

SpecEdge == InitEdge /\ [][NextEdge]_vars

Zero == <<0, 1>>
Defined(x) == x[2] > 0

(* C21: no statistical function raises on a zero-length input or a zero    *)
(* denominator, each returning 0 or a defaulted structure: the growth rate *)
(* is 0 on fewer than 2 points or a first value of 0, the volatility is 0  *)
(* on a mean of 0, the trend is stable on fewer than 2 points or a first   *)
(* half of mean 0, seasonality is not detected on fewer than 7 points or   *)
(* an overall average of 0, there are no anomalies on fewer than 5 points, *)
(* the forecast and the A/B analysis return their error structure on too   *)
(* little data and well-defined numbers otherwise, the KPI summary is all  *)
(* zeros on no metric, and analyze_content_performance([]) has             *)
(* total_products 0.                                                       *)
C21_NoRaiseOnDegenerateInput ==
    LET result == analysis.values[1]
        values == analysis.args[1]
        n == Len(values)
    IN /\ analysis.op \in {"_calculate_trend_direction", "_calculate_volatility",
                           "_calculate_growth_rate", "_detect_seasonal_patterns",
                           "analyze_content_performance"}
            => result.raised = ""
       /\ analysis.op = "_calculate_growth_rate" /\ (n < 2 \/ values[1] = 0)
            => result.value = Zero
       /\ analysis.op = "_calculate_volatility" /\ (n < 2 \/ SumSeq(values) = 0)
            => result.value = Zero
       /\ analysis.op = "_calculate_trend_direction"
              /\ (n < 2 \/ SumSeq(SubSeq(values, 1, n \div 2)) = 0)
            => result.value = "stable"
       /\ analysis.op = "_detect_seasonal_patterns"
              /\ (n < 7 \/ (SumSeq(ValuesOf(values)) = 0 /\ n = 7
                            /\ values[n].timestamp = n - 1))
            => ~result.value.detected
       /\ analysis.op = "analyze_content_performance" /\ values = <<>>
            => result.value.total_products = 0
       /\ analysis.op = "_detect_anomalies" /\ n < 5 => analysis.values = <<>>
       /\ analysis.op = "_generate_forecast"
            => IF n < 3 THEN result.error
               ELSE /\ ~result.error /\ Defined(result.trend_slope)
                    /\ \A k \in DOMAIN result.forecast_values :
                           Defined(result.forecast_values[k])
       /\ analysis.op = "ab_test"
            => /\ result.error = (values = <<>> \/ analysis.args[2] = <<>>)
               /\ (~result.error /\ SumSeq(values) = 0
                     => result.recommendation = "Keep control")
       /\ analysis.op = "_calculate_dashboard_kpis"
              /\ (values = <<>> \/ analysis.args[2] = <<>>)
            => result = [total_metrics |-> 0, average_value |-> Zero,
                         max_value |-> 0, min_value |-> 0]

C21_Witness ==
    /\ analysis.op = "_calculate_growth_rate"
    /\ Len(analysis.args[1]) >= 2
    /\ analysis.args[1][1] = 0 /\ analysis.args[1][Len(analysis.args[1])] # 0
    /\ analysis.values[1] = Returns(Zero)

----------------------------------------------------------------------------
(* Category suggestion: data_enricher.py 1040-1126.  A text is known by    *)
(* the lookup keywords it is made of.                                      *)

(* category_keywords, in the order of the dict literal *)
CategoryKeywords ==
    <<[category |-> "Electronics",
       keywords |-> {"electronic", "digital", "computer", "phone", "tablet",
                     "camera", "audio", "video"}],
      [category |-> "Clothing & Apparel",
       keywords |-> {"shirt", "pants", "dress", "shoes", "jacket", "clothing",
                     "apparel", "fashion"}],
      [category |-> "Home & Garden",
       keywords |-> {"home", "garden", "furniture", "decor", "kitchen",
                     "bathroom", "bedroom"}],
      [category |-> "Sports & Outdoors",
       keywords |-> {"sports", "outdoor", "fitness", "exercise", "camping",
                     "hiking", "athletic"}],
      [category |-> "Books & Media",
       keywords |-> {"book", "dvd", "cd", "magazine", "media", "entertainment"}],
      [category |-> "Health & Beauty",
       keywords |-> {"health", "beauty", "cosmetic", "skincare", "wellness",
                     "medical"}],
      [category |-> "Automotive",
       keywords |-> {"car", "auto", "vehicle", "automotive", "parts",
                     "accessories"}],
      [category |-> "Tools & Hardware",
       keywords |-> {"tool", "hardware", "construction", "repair",
                     "maintenance"}]>>

LookupCategories == {CategoryKeywords[i].category : i \in DOMAIN CategoryKeywords}
LookupKeywords == UNION {CategoryKeywords[i].keywords : i \in DOMAIN CategoryKeywords}

(* `keyword in text`, line 1118: the keywords that occur in a text made of *)
(* these words ('car' occurs in 'skincare', 'auto' in 'automotive')        *)
Occurring(words) ==
    words \cup (IF "skincare" \in words THEN {"car"} ELSE {})
          \cup (IF "automotive" \in words THEN {"auto"} ELSE {})

(* score = sum(1 for keyword in keywords if keyword in text) *)
KeywordScore(i, words) ==
    Cardinality(CategoryKeywords[i].keywords \cap Occurring(words))

(* faulty variant: of the categories of highest score the last one wins *)
_suggest_category_LastOnTie(words) ==
    LET scored == {i \in DOMAIN CategoryKeywords : KeywordScore(i, words) > 0}
        best == CHOOSE i \in scored :
                    \A j \in scored :
                        \/ KeywordScore(j, words) < KeywordScore(i, words)
                        \/ (KeywordScore(j, words) = KeywordScore(i, words) /\ j <= i)
    IN IF scored = {} THEN NoneV ELSE CategoryKeywords[best].category

(* max(category_scores, key=category_scores.get), line 1124: the first key *)
(* of highest score, the keys being in the order of the lookup             *)
_suggest_category(words) ==
    LET scored == {i \in DOMAIN CategoryKeywords : KeywordScore(i, words) > 0}
        best == CHOOSE i \in scored :
                    \A j \in scored :
                        \/ KeywordScore(j, words) < KeywordScore(i, words)
                        \/ (KeywordScore(j, words) = KeywordScore(i, words) /\ i <= j)
    IN IF scored = {} THEN NoneV ELSE CategoryKeywords[best].category

MaxWords == 2       \* most lookup keywords in a text

(* the words the texts are made of: two keywords of every category and the *)
(* two that hold another                                                   *)
TextWords ==
    {"electronic", "camera", "shirt", "fashion", "home", "garden", "sports",
     "hiking", "book", "cd", "health", "skincare", "car", "automotive", "tool",
     "repair"}

Texts == {Range(words) : words \in SeqsUpTo(TextWords, MaxWords)}

(* what the categorization pass reads off a text of these words *)
CategoryChoice(words, short) ==
    [short |-> short, differs |-> TRUE, q |-> 900,
     suggest |-> _suggest_category(words)]

CategoryValues == {NoneV, "", NonStr, "other", "Other", "MISC", "Electronics", "Toys"}

CategoryRecords ==
    {Fields(t, "D", c, EmptyDict, FALSE) : t \in {"T", NonStr}, c \in CategoryValues}

(* _apply_categorization on a record whose texts are made of these words *)
Categorize ==
    /\ NoScoreYet /\ calls = 0 /\ config = <<>>
    /\ \E f \in CategoryRecords, words \in Texts, short \in BOOLEAN :
           LET n == NewProduct(f, <<>>, <<>>)
           IN Scored("_apply_categorization", <<n.product, words>>,
                     _apply_categorization(n.product, n.dictHeap, n.listHeap,
                                           CategoryChoice(words, short)))

InitCategory == Init

NextCategory ==
    \/ Categorize
    \/ NoScoreYet /\ \E f \in CategoryRecords : CallEnrich(f, MaxCalls)
    \/ \E t \in DOMAIN tasks : Start(t)
    \/ \E t \in DOMAIN tasks, words \in {w \in Texts : Cardinality(w) <= 1},
          short \in BOOLEAN : RunPass(t, CategoryChoice(words, short))
    \/ \E t \in DOMAIN tasks : Finish(t)
    \/ ReturnEnrich

SpecCategory == InitCategory /\ [][NextCategory]_vars

AbsentOrLowInformation(category) ==
    category \in {NoneV, ""} \/ Lower(category) \in LowInformation

(* C22: the enriched record's category differs from the original's only if *)
(* the categorization pass ran and the original category was absent or,    *)
(* whatever its case, one of uncategorized, other, misc (a record of any   *)
(* other non-empty category keeps it under every configuration), and the   *)
(* new category is then a lookup category; the pass sets the category of   *)
(* such a record to the lookup category of highest keyword score, the      *)
(* first one in the lookup's order on a tie, and leaves it alone when no   *)
(* category scores above 0.                                                *)
C22_CategoryOnlySuggestedWhenAbsent ==
    /\ \A t \in DOMAIN tasks :
           LET k == tasks[t] IN
           (k.status \in {"running", "done"}
                /\ k.enriched.category # k.pre.category)
               => /\ \E i \in DOMAIN k.log : k.log[i].type = CATEGORIZATION
                  /\ AbsentOrLowInformation(k.pre.category)
                  /\ k.enriched.category \in LookupCategories
    /\ analysis.op = "_apply_categorization"
           => LET original == analysis.args[1].category
                  words == analysis.args[2]
                  category == analysis.values[1].product.category
                  top(i) == \A j \in DOMAIN CategoryKeywords :
                                /\ KeywordScore(j, words) <= KeywordScore(i, words)
                                /\ j < i => KeywordScore(j, words) < KeywordScore(i, words)
              IN IF original = NonStr \/ ~AbsentOrLowInformation(original)
                    \/ \A i \in DOMAIN CategoryKeywords : KeywordScore(i, words) = 0
                 THEN category = original
                 ELSE \E i \in DOMAIN CategoryKeywords :
                          top(i) /\ category = CategoryKeywords[i].category

C22_Witness ==
    /\ analysis.op = "_apply_categorization"
    /\ analysis.args[1].category = "Other"
    /\ analysis.args[2] = {"shirt", "camera"}
    /\ analysis.values[1].product.category = "Electronics"

----------------------------------------------------------------------------
(* Bullet points of the Amazon pass *)

(* C23: whenever the Amazon pass generates bullet points it generates at   *)
(* most 5 and, backfilling with category and brand boilerplate, at least 3 *)
C23_BulletsBetweenThreeAndFive ==
    \A t \in DOMAIN tasks :
        \A i \in DOMAIN tasks[t].log :
            LET entry == tasks[t].log[i] IN
            (/\ entry.type = AMAZON_OPTIMIZATION /\ ~entry.raised
             /\ DictHas(entry.after.attributes, "amazon_bullet_points"))
                => BulletCount(DictGet(entry.after.attributes,
                                       "amazon_bullet_points")) \in 3..5

----------------------------------------------------------------------------
(* The rewrites of the SEO pass, on lengths.  A description is known by    *)
(* its length, the length of its first sentence (what precedes the first   *)
(* '.', taken without surrounding blanks) and the number of '.' it ends    *)
(* in; a keyword by its length.                                            *)

DescriptionLimit == 500
FirstSentenceLimit == 100
TitleLimit == 60
TitleRoom == 50

(* _add_keyword_naturally: data_enricher.py 999-1010 *)
_add_keyword_naturally(text, keyword) ==
    IF text.first < FirstSentenceLimit
    THEN \* f'{sentences[0].strip()} with {keyword}'
         [text EXCEPT !.length = @ + Len(" with ") + keyword,
                      !.first = @ + Len(" with ") + keyword]
    ELSE \* f'{text.rstrip(".")}. Features {keyword}.'
         [text EXCEPT !.length = @ - text.dots + Len(". Features ") + keyword + 1,
                      !.dots = 1]

(* the loop of _optimize_description_for_seo, lines 528-531, over the      *)
(* keywords that the description lacks                                     *)
RECURSIVE Enhance(_, _)
Enhance(enhanced, keywords) ==
    IF keywords = <<>> THEN enhanced
    ELSE Enhance(IF enhanced.length < DescriptionLimit
                 THEN _add_keyword_naturally(enhanced, Head(keywords))
                 ELSE enhanced,
                 Tail(keywords))

(* _optimize_description_for_seo: data_enricher.py 509-533 *)
_optimize_description_for_seo(description, keywords) ==
    IF description.length = 0 THEN description ELSE Enhance(description, keywords)

(* the category keywords loop of _optimize_title_for_seo, lines 497-502 *)
RECURSIVE AppendKeywords(_, _)
AppendKeywords(optimized, keywords) ==
    IF keywords = <<>> THEN optimized
    ELSE AppendKeywords(IF optimized + Head(keywords) < TitleLimit
                        THEN optimized + 1 + Head(keywords) ELSE optimized,
                        Tail(keywords))

(* _optimize_title_for_seo: data_enricher.py 480-507, on a title without   *)
(* surrounding or repeated blanks; brand: the length of a brand that the   *)
(* title lacks (0: none), keywords: of the category keywords it lacks      *)
_optimize_title_for_seo(title, brand, keywords) ==
    IF title = 0 THEN title
    ELSE LET branded == IF brand > 0 THEN brand + 1 + title ELSE title
             optimized == IF branded < TitleRoom
                          THEN AppendKeywords(branded, keywords) ELSE branded
         IN Min(TitleLimit, optimized)

MaxKeywords == 2    \* most keywords that a text lacks

KeywordLengths == {4, 10}

Descriptions ==
    {d \in [length : {0, 90, 450, 499, 500, 600}, first : {0, 10, 90, 120},
            dots : {0, 1}] :
        /\ d.first + d.dots <= d.length
        /\ (d.first = 0 => d.length = 0)}

DescriptionForSeo ==
    NoScoreYet /\ \E description \in Descriptions,
                     keywords \in SeqsUpTo(KeywordLengths, MaxKeywords) :
        Scored("_optimize_description_for_seo", <<description, keywords>>,
               _optimize_description_for_seo(description, keywords))

TitleForSeo ==
    NoScoreYet /\ \E title \in {0, 10, 45, 49, 55, 60, 90}, brand \in {0, 4, 70},
                     keywords \in SeqsUpTo(KeywordLengths, MaxKeywords) :
        Scored("_optimize_title_for_seo", <<title, brand, keywords>>,
               _optimize_title_for_seo(title, brand, keywords))

InitSeo == InitEnricher({<<>>}) /\ InitAnalyticsIdle
NextSeo == DescriptionForSeo \/ TitleForSeo
SpecSeo == InitSeo /\ [][NextSeo]_vars

(* C24: the description rewrite of the SEO pass keeps a description that   *)
(* is shorter than 500 characters shorter than 500 characters, whatever    *)
(* keywords it lacks, and the rewritten title is never longer than 60      *)
(* characters.                                                             *)
C24_RewritesStayWithinLimits ==
    /\ (analysis.op = "_optimize_description_for_seo"
            /\ analysis.args[1].length < DescriptionLimit)
        => analysis.values[1].length < DescriptionLimit
    /\ analysis.op = "_optimize_title_for_seo" => analysis.values[1] <= TitleLimit

----------------------------------------------------------------------------
(* overall_quality *)

(* the quality-scoring pass has just returned, for the first time in the   *)
(* call                                                                    *)
JustScored(k) ==
    /\ k.status = "running" /\ k.log # <<>>
    /\ k.log[Len(k.log)].type = QUALITY_SCORING /\ ~k.log[Len(k.log)].raised
    /\ \A i \in 1..(Len(k.log) - 1) : k.log[i].type # QUALITY_SCORING

MeanOf(metrics) ==
    IF metrics # EmptyDict THEN SumValues(metrics) \div DictLen(metrics) ELSE 0

(* the metrics the quality-scoring pass computes before the mean *)
QualityPassMetrics ==
    {"title_quality", "description_quality", "completeness_score", "brand_compliance"}

(* C25 as stated: overall_quality is the mean of all the numeric metrics   *)
(* produced so far in the enrichment call, those accumulated in            *)
(* quality_metrics by the passes that ran before together with those the   *)
(* quality-scoring pass has just computed.                                 *)
C25_OverallIsMeanOfAllMetricsSoFar ==
    \A t \in DOMAIN tasks :
        LET k == tasks[t] IN
        (IsProduct(k.product) /\ JustScored(k))
            => DictGet(k.quality_metrics, "overall_quality")
               = MeanOf({p \in k.quality_metrics : p[1] # "overall_quality"})

(* C25, amended: overall_quality is the mean of the numeric metrics that   *)
(* the quality-scoring pass has just computed itself (title_quality,       *)
(* description_quality, completeness_score and brand_compliance, those     *)
(* that it produced); the metrics accumulated in quality_metrics by the    *)
(* passes that ran before do not enter it.                                 *)
C25_OverallIsMeanOfOwnMetrics ==
    \A t \in DOMAIN tasks :
        LET k == tasks[t] IN
        (IsProduct(k.product) /\ JustScored(k))
            => DictGet(k.quality_metrics, "overall_quality")
               = MeanOf({p \in k.quality_metrics : p[1] \in QualityPassMetrics})

C25_Witness ==
    \E t \in DOMAIN tasks :
        LET k == tasks[t] IN
        /\ IsProduct(k.product) /\ JustScored(k)
        /\ DictHas(k.quality_metrics, "title_length")
        /\ DictHas(k.quality_metrics, "title_quality")
        /\ DictGet(k.quality_metrics, "overall_quality")
           # MeanOf({p \in k.quality_metrics : p[1] # "overall_quality"})

----------------------------------------------------------------------------
(* enrich_products_batch as the event loop runs it.  The tasks that gather *)
(* creates are started in the order of the batch, and an activation that   *)
(* was started runs to its return before another is started: all that      *)
(* enrich_product awaits are coroutines of the class (lines 130-168), none *)
(* a future, and the semaphore's acquire returns at once while its value   *)
(* is positive (lines 215-217).                                            *)

(* faulty variant: every await lets another activation in *)
InTurn_AtEveryAwait(ts) == TRUE
InTurn(ts) == \A u \in DOMAIN ts : ts[u].status # "running"

StartInTurn(t) == InTurn(tasks) /\ Start(t)

NextOrder ==
    \/ \E fs \in Batches : CallBatch(fs, MaxBatchCalls)
    \/ \E t \in DOMAIN tasks : StartInTurn(t)
    \/ \E t \in DOMAIN tasks, ch \in BatchChoices : RunPass(t, ch)
    \/ \E t \in DOMAIN tasks : Finish(t)
    \/ ReturnBatch

SpecOrder == InitBatch /\ [][NextOrder]_vars

(* the entries that the current call has added to the history *)
HistoryOfCall ==
    LET own == {i \in DOMAIN completed : completed[i][1] = calls}
    IN [j \in 1..Cardinality(own) |->
           enrichment_history[Len(enrichment_history) - Cardinality(own) + j]]

----------------------------------------------------------------------------
(* A pass that raises part-way *)

(* what a raised pass leaves: the record as it stood when it raised is the *)
(* working copy, the one the next pass is handed and the one returned      *)
C27_WritesRemain ==
    \A t \in DOMAIN tasks :
        LET k == tasks[t]
            n == Len(k.log)
        IN
        (IsProduct(k.product) /\ k.status \in {"running", "done"}) =>
            /\ \A i \in DOMAIN k.log :
                   k.log[i].raised =>
                       IF i < n THEN k.log[i + 1].before = k.log[i].after
                       ELSE DeepEnriched(k) = k.log[i].after
            /\ (k.status = "done" =>
                   /\ k.result.enriched_product = k.enriched
                   /\ k.result.enrichment_score
                      = _calculate_enrichment_score(k.product, k.enriched,
                                                    k.result.quality_metrics, dictHeap))

(* what a raised pass adds: its failure note and nothing else *)
C27_OnlyTheNote ==
    \A t \in DOMAIN tasks :
        (/\ t \in DOMAIN tasks' /\ tasks[t].status = "running"
         /\ Len(tasks'[t].log) = Len(tasks[t].log) + 1
         /\ tasks'[t].log[Len(tasks'[t].log)].raised)
            => /\ tasks'[t].quality_metrics = tasks[t].quality_metrics
               /\ tasks'[t].applied_enrichments = tasks[t].applied_enrichments
               /\ tasks'[t].suggestions
                  = Append(tasks[t].suggestions,
                           FailureNote(tasks'[t].log[Len(tasks'[t].log)].type))

(* C27: a pass that raises part-way is not rolled back: none of its        *)
(* metrics and none of its suggestions reach the result, only its failure  *)
(* note, but every write it made to the working copy before it raised      *)
(* stays in the enriched record, is seen by the passes that follow and by  *)
(* the final enrichment_score.                                             *)
C27_FailingPassNotRolledBack ==
    /\ []C27_WritesRemain
    /\ [][C27_OnlyTheNote]_vars

(* the SEO pass rewrote the title and then raised; the next pass was       *)
(* handed the new title, and the result carries it and the score its bonus *)
C27_Witness ==
    \E t \in DOMAIN tasks :
        LET k == tasks[t] IN
        /\ k.status = "done" /\ Len(k.log) = 2
        /\ k.log[1].type = SEO_OPTIMIZATION /\ k.log[1].raised
        /\ k.log[1].before.title = "T" /\ k.log[1].after.title = "seo_title"
        /\ k.log[2].before.title = "seo_title"
        /\ k.result.enriched_product.title = "seo_title"
        /\ k.result.quality_metrics = EmptyDict
        /\ k.result.suggestions = <<FailureNote(SEO_OPTIMIZATION)>>
        /\ k.result.enrichment_score = Pts(500) + Pts(100)

----------------------------------------------------------------------------
(* The read-only analytics operations beside track_metric *)

(* generate_predictive_insights, lines 535-629: the counts and the flags   *)
(* of the report, and the predicted change of _predict_quality_trend, lines *)
(* 992-1008, a tenth of the two gaps to 100; no access to the store         *)
generate_predictive_insights(products) ==
    LET n == Len(products)
        quality == [i \in DOMAIN products |->
                       _calculate_content_quality_score(products[i])]
        completeness == [i \in DOMAIN products |->
                            _calculate_completeness_score(products[i])]
        low_quality == Cardinality({i \in DOMAIN products : quality[i] < Pts(600)})
        incomplete == Cardinality({i \in DOMAIN products : completeness[i] < Pts(800)})
        no_description == Cardinality({i \in DOMAIN products :
                                          products[i].description = 0})
        no_category == Cardinality({i \in DOMAIN products :
                                       ~Truthy(products[i].category)})
    IN IF products = <<>>
       THEN [total_products_analyzed |-> 0, opportunities |-> <<>>,
             risk_factors |-> <<>>, predicted_quality_change |-> <<0, 1>>]
       ELSE [total_products_analyzed |-> n,
             opportunities |->
                 (IF low_quality > 0 THEN <<<<"quality_improvement", low_quality>>>>
                  ELSE <<>>)
                 \o (IF incomplete > 0 THEN <<<<"content_completion", incomplete>>>>
                     ELSE <<>>),
             risk_factors |->
                 (IF 10 * no_description > n
                  THEN <<<<"missing_descriptions", no_description>>>> ELSE <<>>)
                 \o (IF 20 * no_category > n
                     THEN <<<<"missing_categories", no_category>>>> ELSE <<>>),
             predicted_quality_change |->
                 Frac(2 * n * Pts(1000) - SumSeq(quality) - SumSeq(completeness),
                      10 * n)]

(* a name no point is tracked under *)
Untracked == <<"x">>
QueryNames == MetricNames \cup {Untracked}
ReadOnlyPoints ==
    {MetricData(n, v, DashboardNow - age) : n \in MetricNames, v \in {8, 12},
                                            age \in {2}}
ReadOnlyRecords ==
    {ScoreRecord("p1", 45, 0, 1999, NoneV, NoneV, NoneV, EmptyDict, <<>>),
     ScoreRecord("p2", 45, 200, 1999, "Electronics", "Acme", NoneV, EmptyDict, <<>>)}
ReadOnlyInputs == SeqsUpTo(ReadOnlyRecords, 2)
ReadOnlyGroups == {<<>>, <<8, 12>>, <<12, 12, 8>>}

TrendAnalysis ==
    \E metric_name \in QueryNames, days \in {1, 30} :
        perform_trend_analysis(metric_name, days * HoursPerDay)

ContentAnalysis ==
    \E products \in ReadOnlyInputs :
        Scored("analyze_content_performance", <<products>>,
               analyze_content_performance(products))

CohortsOfStore ==
    \E products \in ReadOnlyInputs, cohort_field \in {"category", "brand"} :
        perform_cohort_analysis(products, cohort_field)

ABTestOfStore ==
    \E control_values \in ReadOnlyGroups, variant_values \in ReadOnlyGroups :
        generate_ab_test_analysis(control_values, variant_values)

PredictiveInsights ==
    \E products \in ReadOnlyInputs :
        Scored("generate_predictive_insights", <<products>>,
               generate_predictive_insights(products))

Dashboard ==
    \E time_frame \in {"hourly", "daily", "weekly", "monthly"} :
        create_dashboard_data(time_frame)

InitReadOnly ==
    /\ InitEnricher({<<>>})
    /\ metrics_store = EmptyStore /\ alert_history = <<>>
    /\ alert_thresholds \in {<<>>, <<<<<<"c">>, 10>>>>}
    /\ retention_days = DefaultRetentionDays
    /\ tracked = <<>> /\ analysis = NoAnalysis /\ now = DashboardNow
    /\ store_keys = <<>> /\ reports_cache = EmptyCache /\ reports = <<>>
    /\ seconds = 0

NextReadOnly ==
    \/ \E m \in ReadOnlyPoints : track_metric(m)
    \/ TrendAnalysis
    \/ ContentAnalysis
    \/ CohortsOfStore
    \/ ABTestOfStore
    \/ PredictiveInsights
    \/ Dashboard
    \/ get_analytics_summary

SpecReadOnly == InitReadOnly /\ [][NextReadOnly]_vars

(* the count get_analytics_summary reports as unique_metric_types, line 1215 *)
unique_metric_types(store) == Cardinality(DOMAIN store)

(* C28: a step of a read-only operation (any operation but the tracking of *)
(* a point) leaves the metric store and the alert history as they were: no *)
(* point added, removed or moved, no alert added, no entry made for a name *)
(* that was queried and never tracked, unique_metric_types unchanged.      *)
C28_ReadOnlyOperationsLeaveTheStore ==
    [][tracked' = tracked =>
          /\ metrics_store' = metrics_store
          /\ DOMAIN metrics_store' = DOMAIN metrics_store
          /\ unique_metric_types(metrics_store') = unique_metric_types(metrics_store)
          /\ store_keys' = store_keys
          /\ alert_history' = alert_history]_vars

(* a name never tracked was queried over a store that holds points and an  *)
(* alert, and the store holds no entry for it                              *)
C28_Witness ==
    /\ analysis.op = "trend" /\ analysis.args[1] = Untracked /\ analysis.error
    /\ Len(tracked) = MaxPoints
    /\ alert_history # <<>>
    /\ Untracked \notin DOMAIN metrics_store
    /\ unique_metric_types(metrics_store) = Cardinality(MetricNames)

----------------------------------------------------------------------------
(* The fields no pass writes *)

(* the fields the copy of lines 106-116 takes over and no pass assigns; the *)
(* passes assign title (245, 311), description (263, 320), category (453)   *)
(* and attributes (283, 327, 358, 367, 472) only                            *)
KeptFields == {"id", "price", "brand", "sku", "images"}

SameKept(enriched, original) == \A f \in KeptFields : enriched[f] = original[f]

(* C29: under every configuration and for every record, the enriched       *)
(* record has the id, price, brand, sku and images of the original, while  *)
(* the passes run and in the result returned: the passes change title,     *)
(* description, category and attributes only.                              *)
C29_IdentityFieldsKept ==
    /\ \A t \in DOMAIN tasks :
           LET k == tasks[t] IN
           (IsProduct(k.product) /\ k.status \in {"running", "done"}) =>
               /\ SameKept(DeepEnriched(k), k.pre)
               /\ SameKept(DeepEnriched(k), Deep(k.product, dictHeap, listHeap))
               /\ \A i \in DOMAIN k.log : SameKept(k.log[i].after, k.pre)
               /\ (k.status = "done" =>
                      SameKept(Deep(k.result.enriched_product, dictHeap, listHeap),
                               Deep(k.result.original_product, dictHeap, listHeap)))
    /\ returned.kind = "result" =>
           LET result == returned.value[1]
           IN SameKept(Deep(result.enriched_product, dictHeap, listHeap),
                       Deep(result.original_product, dictHeap, listHeap))

(* a record with price, brand, sku and two images was returned with its    *)
(* title, its category and its attributes rewritten                        *)
C29_Witness ==
    /\ returned.kind = "result"
    /\ LET result == returned.value[1]
           enriched == Deep(result.enriched_product, dictHeap, listHeap)
           original == Deep(result.original_product, dictHeap, listHeap)
       IN /\ original.brand = "Acme" /\ original.sku = "S1"
          /\ original.price = 1999 /\ original.images = <<"u1", "u2">>
          /\ enriched.title # original.title
          /\ enriched.category # original.category
          /\ enriched.attributes # original.attributes
          /\ enriched.brand = "Acme" /\ enriched.images = <<"u1", "u2">>

----------------------------------------------------------------------------
(* Anomaly detection at its minimum of points *)

(* `if len(values) < 5: return []`, line 930 *)
MinimumPoints == 5

FiveValues == [1..MinimumPoints -> {0 - 10, 0, 1, 3, 10}]
SixValues == [1..(MinimumPoints + 1) -> {0, 10}]

AnomaliesOfFive ==
    NoScoreYet /\ \E values \in FiveValues : _detect_anomalies(values)

AnomaliesOfSix ==
    NoScoreYet /\ \E values \in SixValues : _detect_anomalies(values)

AnomaliesOfFewer ==
    NoScoreYet /\ \E values \in SeqsUpTo({0, 10}, MinimumPoints - 1) :
        _detect_anomalies(values)

NextMinimum ==
    \/ AnomaliesOfFive
    \/ AnomaliesOfSix
    \/ AnomaliesOfFewer

SpecMinimum == InitStatistics /\ [][NextMinimum]_vars

(* C30: a series of exactly 5 values has no anomaly, whatever its values,  *)
(* so that a series with an anomaly has 6 values or more.                  *)
C30_NoAnomalyAmongFive ==
    analysis.op = "_detect_anomalies" =>
        /\ Len(analysis.args[1]) = MinimumPoints => analysis.values = <<>>
        /\ analysis.values # <<>> => Len(analysis.args[1]) >= MinimumPoints + 1

(* four equal values and one far from them: at 4 / sqrt(5) = 1.79 sample   *)
(* standard deviations from the mean, the farthest a value of 5 can lie,   *)
(* and not flagged                                                         *)
C30_Witness ==
    /\ analysis.op = "_detect_anomalies"
    /\ analysis.args[1] = <<0, 0, 0, 0, 10>>
    /\ analysis.values = <<>>

====
